---- MODULE Spec2Model ----
(***************************************************************************)
(* Resilient external-call layer of horizon-cli:                           *)
(*   - llm_service._call_responses_api : create one background job, then   *)
(*     poll it until a terminal status or until the cycle budget is spent; *)
(*   - web_search_service.search       : POST with retry, backoff and the  *)
(*     primary -> fallback endpoint switch;                                *)
(*   - the normalisers above them: the records search builds, llm_service  *)
(*     generate_domain_map, parse_research and _heuristic_topics, and      *)
(*     scenario_service.score_scenarios, each applied to the text its job  *)
(*     returned.                                                           *)
(* Strings are sequences of tokens; the tokens " " and "\n" are the        *)
(* whitespace that str.strip() removes.                                    *)
(***************************************************************************)
EXTENDS Integers, Sequences, FiniteSets, TLC

VARIABLES
    POLL_INTERVAL_SECONDS,  \* llm_service module global
    MAX_POLL_CYCLES,        \* llm_service module global
    DEBUG_DEEP_RESEARCH,    \* llm_service module global
    PARALLEL_AI_API_KEY,    \* config.PARALLEL_AI_API_KEY
    lpc,                    \* position of _call_responses_api
    cycles,                 \* local variable cycles
    status_response,        \* last object returned by client.responses.retrieve
    llmOut,                 \* how the call ended: returned value or raised error
    upstream,               \* what the generative service answers to this call
    creates,                \* client.responses.create calls of this call
    polls,                  \* client.responses.retrieve calls of this call
    sleeps,                 \* time.sleep calls of this call
    slept,                  \* seconds slept by this call
    dumps,                  \* _dump_debug invocations that passed the debug guard
    spc,                    \* position of search
    max_retries,            \* argument of search
    attempt,                \* local variable attempt
    endpoint,               \* local variable endpoint
    postLog,                \* requests.post calls of this call: endpoint and outcome
    searchSleeps,           \* durations (ms) of the time.sleep calls of this call of search
    searchOut,              \* how search ended: returned list or raised error
    call,                   \* the operation under way above the two clients, with its inputs
    ret,                    \* how that operation ended: returned value or raised error
    jobs,                   \* _call_responses_api calls that operation has made
    searches,               \* the topics that operation has passed to search, in order
    scan,                   \* position and local variables of horizon_scan
    files                   \* the cache files and the report file of the scan

llmVars == <<POLL_INTERVAL_SECONDS, MAX_POLL_CYCLES, DEBUG_DEEP_RESEARCH, lpc, cycles,
             status_response, llmOut, upstream, creates, polls, sleeps, slept, dumps>>
searchVars == <<spc, max_retries, attempt, endpoint, postLog, searchSleeps, searchOut>>
pureVars == <<call, ret, jobs>>
scanVars == <<searches, scan, files>>
vars == <<llmVars, PARALLEL_AI_API_KEY, searchVars, pureVars, scanVars>>

-----------------------------------------------------------------------------
(* Bounds of the model *)

\* largest value passed to configure_timings
MaxCfg == 2
\* largest number of non-terminal polls the service plans before its terminal answer
MaxPre == 2
\* largest max_retries passed to search
MaxRetriesArg == 3

(* Program constants *)
DefaultPollInterval == 8
DefaultMaxPollCycles == 120
DEFAULT_MAX_RETRIES == 3

-----------------------------------------------------------------------------
(* Strings *)

Whitespace == {" ", "\n"}

RECURSIVE LStrip(_)
LStrip(s) == IF s # <<>> /\ Head(s) \in Whitespace THEN LStrip(Tail(s)) ELSE s

RECURSIVE RStrip(_)
RStrip(s) ==
    IF s # <<>> /\ s[Len(s)] \in Whitespace THEN RStrip(SubSeq(s, 1, Len(s) - 1)) ELSE s

\* str.strip()
Strip(s) == RStrip(LStrip(s))

\* sep.join(list)
RECURSIVE Join(_, _)
Join(sep, list) ==
    IF list = <<>> THEN <<>>
    ELSE IF Len(list) = 1 THEN list[1]
    ELSE list[1] \o sep \o Join(sep, Tail(list))

\* concatenation of a list of lists
RECURSIVE Flatten(_)
Flatten(ll) == IF ll = <<>> THEN <<>> ELSE Head(ll) \o Flatten(Tail(ll))

-----------------------------------------------------------------------------
(* Objects of the Responses API *)

\* an attribute value: a str, or something that is no str (None, a number)
StrVal(s) == [isStr |-> TRUE, s |-> s]
NotStr == [isStr |-> FALSE, s |-> <<>>]

PartTexts == {StrVal(<<"body">>), StrVal(<<" ", "body", "\n">>), StrVal(<<>>), NotStr}
Parts == [type : {"output_text", "text", "refusal"}, text : PartTexts]
SummaryTexts == {StrVal(<<"why">>), NotStr}

\* an output item; content and summary are lists, or hasList is FALSE (None, absent)
Item(t, hasList, content, summary) ==
    [type |-> t, hasList |-> hasList, content |-> content, summary |-> summary]

MessageItems ==
    {Item("message", TRUE, <<p>>, <<>>) : p \in Parts}
    \cup {Item("message", TRUE, <<>>, <<>>), Item("message", FALSE, <<>>, <<>>)}
ReasoningItems ==
    {Item("reasoning", TRUE, <<>>, <<[text |-> t]>>) : t \in SummaryTexts}
    \cup {Item("reasoning", FALSE, <<>>, <<>>)}
OtherItems ==
    {Item("output_text", TRUE, <<[type |-> "text", text |-> StrVal(<<"raw">>)]>>, <<>>),
     Item("web_search_call", FALSE, <<>>, <<>>)}
Items == MessageItems \cup ReasoningItems \cup OtherItems

Outputs == {<<>>} \cup {<<i>> : i \in Items}
           \cup {<<i, j>> : i \in MessageItems \cup ReasoningItems, j \in ReasoningItems \cup MessageItems}

NonTerminal == {"queued", "in_progress"}
Terminal == {"completed", "failed", "cancelled"}
ErrorDetails == {"None", "server_error"}

NoResponse == [status |-> "none", output |-> <<>>, error |-> "None"]

NoTextSentinel == <<"Error: No textual content extracted from deep research output.">>
TimeoutSentinel == <<"Error: Deep research timed out waiting for completion.">>
TaskErrorSentinel(status, error) == <<"Error: Task ", status, ". Details: ", error>>

\* texts of the parts of one list, in order, keeping the str ones of the wanted types
RECURSIVE PartStrs(_, _)
PartStrs(content, types) ==
    IF content = <<>> THEN <<>>
    ELSE (IF Head(content).type \in types /\ Head(content).text.isStr
          THEN <<Head(content).text.s>> ELSE <<>>)
         \o PartStrs(Tail(content), types)

\* pass 1 of _extract_text_from_output over one item
MessageTextsOf(item) ==
    IF item.type = "message" /\ item.hasList
    THEN PartStrs(item.content, {"output_text", "text"})
    ELSE IF item.type \in {"text", "output_text"} /\ item.hasList
    THEN PartStrs(item.content, {"output_text", "text", "refusal"})
    ELSE <<>>

RECURSIVE SummaryStrs(_)
SummaryStrs(summary) ==
    IF summary = <<>> THEN <<>>
    ELSE (IF Head(summary).text.isStr THEN <<Head(summary).text.s>> ELSE <<>>)
         \o SummaryStrs(Tail(summary))

\* pass 2 of _extract_text_from_output over one item
ReasoningTextsOf(item) ==
    IF item.type = "reasoning" /\ item.hasList THEN SummaryStrs(item.summary) ELSE <<>>

MessageTexts(output) == Flatten([i \in 1..Len(output) |-> MessageTextsOf(output[i])])
ReasoningTexts(output) == Flatten([i \in 1..Len(output) |-> ReasoningTextsOf(output[i])])

\* faulty variant: the reasoning summaries are appended to the message text
_extract_text_with_reasoning(resp) ==
    IF MessageTexts(resp.output) \o ReasoningTexts(resp.output) # <<>>
    THEN Strip(Join(<<"\n", "\n">>, MessageTexts(resp.output) \o ReasoningTexts(resp.output)))
    ELSE NoTextSentinel

_extract_text_from_output(resp) ==
    IF MessageTexts(resp.output) # <<>>
    THEN Strip(Join(<<"\n", "\n">>, MessageTexts(resp.output)))
    ELSE IF ReasoningTexts(resp.output) # <<>>
    THEN Strip(Join(<<"\n", "\n">>, ReasoningTexts(resp.output)))
    ELSE NoTextSentinel

-----------------------------------------------------------------------------
(* The generative service, as one call sees it: the job creation fails or      *)
(* succeeds; then the first `pre` status fetches answer a non-terminal status  *)
(* and the next one answers `end` (a terminal status, or the fetch itself      *)
(* errors); `never` is a job that stays non-terminal for ever.                 *)

RemoteErrors == {"APIError", "OtherError"}

Upstreams ==
    {u \in [createFails : BOOLEAN, pre : 0..MaxPre,
            end : {"completed", "failed", "cancelled", "error", "never"},
            err : RemoteErrors] :
        /\ (u.createFails => u.pre = 0 /\ u.end = "never")
        /\ (~u.createFails /\ u.end # "error" => u.err = "APIError")
        /\ (u.end = "never" => u.pre = 0)}

NoUpstream == [createFails |-> FALSE, pre |-> 0, end |-> "never", err |-> "APIError"]

\* the status objects the n-th status fetch of the call may return
Answers(n) ==
    IF upstream.end = "never" \/ n <= upstream.pre
    THEN {[status |-> s, output |-> <<>>, error |-> "None"] : s \in NonTerminal}
    ELSE IF upstream.end = "completed"
    THEN {[status |-> "completed", output |-> o, error |-> "None"] : o \in Outputs}
    ELSE {[status |-> upstream.end, output |-> <<>>, error |-> e] : e \in ErrorDetails}

\* whether the n-th status fetch of the call errors instead of answering
FetchErrors(n) == upstream.end = "error" /\ n > upstream.pre

NoOutcome == [kind |-> "none", value |-> <<>>]
NoCall == [fn |-> "none"]
NoScan == [pc |-> "idle"]
NoFiles == [dr |-> "none"]
\* no scan is under way and no search has been asked for
Unscanned == searches = <<>> /\ scan = NoScan /\ files = NoFiles
Returned(v) == [kind |-> "return", value |-> v]
Raised(e) == [kind |-> "raise", value |-> <<e>>]

-----------------------------------------------------------------------------
(* llm_service *)

\* faulty variant: the floor is 0
Clamp1AtZero(x) == IF x < 0 THEN 0 ELSE x

Clamp1(x) == IF x < 1 THEN 1 ELSE x

\* an optional argument: None, or a value
None == [given |-> FALSE, v |-> 0]
Some(x) == [given |-> TRUE, v |-> x]

CfgArgs == {None} \cup {Some(x) : x \in -1..MaxCfg}
\* poll_interval only sets the length of the sleeps: None, a value to clamp, the largest
IntervalArgs == {None, Some(0), Some(MaxCfg)}
DebugArgs == {[given |-> FALSE, v |-> FALSE]} \cup {Some(b) : b \in BOOLEAN}

configure_timings(poll_interval, max_cycles, debug) ==
    /\ lpc = "idle"
    /\ POLL_INTERVAL_SECONDS' =
          IF poll_interval.given THEN Clamp1(poll_interval.v) ELSE POLL_INTERVAL_SECONDS
    /\ MAX_POLL_CYCLES' =
          IF max_cycles.given THEN Clamp1(max_cycles.v) ELSE MAX_POLL_CYCLES
    /\ DEBUG_DEEP_RESEARCH' = IF debug.given THEN debug.v ELSE DEBUG_DEEP_RESEARCH
    /\ UNCHANGED <<lpc, cycles, status_response, llmOut, upstream, creates, polls,
                   sleeps, slept, dumps>>
    /\ UNCHANGED <<PARALLEL_AI_API_KEY, searchVars, pureVars, scanVars>>

\* _dump_debug: the number of dumps after one more invocation
DumpDebug == IF DEBUG_DEEP_RESEARCH THEN dumps + 1 ELSE dumps

\* the call starts: client.responses.create, then cycles = 0
Create ==
    /\ lpc = "idle"
    /\ \E u \in Upstreams :
          /\ upstream' = u
          /\ creates' = creates + 1
          /\ cycles' = 0
          /\ IF u.createFails
             THEN lpc' = "raised" /\ llmOut' = Raised(u.err)
             ELSE lpc' = "polling" /\ llmOut' = NoOutcome
    /\ UNCHANGED <<status_response, polls, sleeps, slept, dumps>>
    /\ UNCHANGED <<POLL_INTERVAL_SECONDS, MAX_POLL_CYCLES, DEBUG_DEEP_RESEARCH>>
    /\ UNCHANGED <<PARALLEL_AI_API_KEY, searchVars, pureVars, scanVars>>

\* faulty variants of the loop condition: one iteration short, one iteration more
LoopGuardStopsEarly == cycles + 1 < MAX_POLL_CYCLES
LoopGuardOneMore == cycles <= MAX_POLL_CYCLES

\* while cycles < MAX_POLL_CYCLES
LoopGuard == cycles < MAX_POLL_CYCLES

\* what one iteration does with the status object r it fetched
PollCompleted(r) ==
    /\ r.status = "completed"
    /\ dumps' = DumpDebug
    /\ llmOut' = Returned(_extract_text_from_output(r))
    /\ lpc' = "returned"
    /\ UNCHANGED <<cycles, sleeps, slept>>

\* faulty variant: a failed or cancelled job is waited for like a pending one
PollFailedKeepsPolling(r) ==
    /\ r.status \in {"failed", "cancelled"}
    /\ cycles' = cycles + 1
    /\ sleeps' = sleeps + 1
    /\ slept' = slept + POLL_INTERVAL_SECONDS
    /\ UNCHANGED <<lpc, llmOut, dumps>>

PollFailed(r) ==
    /\ r.status \in {"failed", "cancelled"}
    /\ dumps' = DumpDebug
    /\ llmOut' = Returned(TaskErrorSentinel(r.status, r.error))
    /\ lpc' = "returned"
    /\ UNCHANGED <<cycles, sleeps, slept>>

\* faulty variant: a pending job is polled again without a sleep
PollPendingNoSleep(r) ==
    /\ r.status \notin {"completed", "failed", "cancelled"}
    /\ cycles' = cycles + 1
    /\ UNCHANGED <<lpc, llmOut, dumps, sleeps, slept>>

PollPending(r) ==
    /\ r.status \notin {"completed", "failed", "cancelled"}
    /\ cycles' = cycles + 1
    /\ sleeps' = sleeps + 1
    /\ slept' = slept + POLL_INTERVAL_SECONDS
    /\ UNCHANGED <<lpc, llmOut, dumps>>

\* faulty variant: the error of a status fetch is turned into an error string
FetchErrorSwallowed ==
    /\ FetchErrors(polls + 1)
    /\ lpc' = "returned"
    /\ llmOut' = Returned(<<"Error: ", upstream.err>>)
    /\ UNCHANGED <<status_response, cycles, sleeps, slept, dumps>>

\* client.responses.retrieve errors: the except clause re-raises, other errors pass
FetchRaises ==
    /\ FetchErrors(polls + 1)
    /\ lpc' = "raised"
    /\ llmOut' = Raised(upstream.err)
    /\ UNCHANGED <<status_response, cycles, sleeps, slept, dumps>>

FetchAnswers ==
    /\ ~FetchErrors(polls + 1)
    /\ \E r \in Answers(polls + 1) :
          /\ status_response' = r
          /\ (PollCompleted(r) \/ PollFailed(r) \/ PollPending(r))

\* one iteration of the loop: client.responses.retrieve and the branch on its status
Poll ==
    /\ lpc = "polling"
    /\ LoopGuard
    /\ polls' = polls + 1
    /\ (FetchRaises \/ FetchAnswers)
    /\ UNCHANGED <<POLL_INTERVAL_SECONDS, MAX_POLL_CYCLES, DEBUG_DEEP_RESEARCH,
                   upstream, creates>>
    /\ UNCHANGED <<PARALLEL_AI_API_KEY, searchVars, pureVars, scanVars>>

\* the loop ends with the budget spent
TimedOut ==
    /\ lpc = "polling"
    /\ ~LoopGuard
    /\ llmOut' = Returned(TimeoutSentinel)
    /\ lpc' = "returned"
    /\ UNCHANGED <<POLL_INTERVAL_SECONDS, MAX_POLL_CYCLES, DEBUG_DEEP_RESEARCH, cycles,
                   status_response, upstream, creates, polls, sleeps, slept, dumps>>
    /\ UNCHANGED <<PARALLEL_AI_API_KEY, searchVars, pureVars, scanVars>>

_call_responses_api == Create \/ Poll \/ TimedOut

\* the caller has taken the value or the error: the frame of the call is gone
LlmCallOver ==
    /\ lpc \in {"returned", "raised"}
    /\ lpc' = "idle"
    /\ cycles' = 0
    /\ status_response' = NoResponse
    /\ llmOut' = NoOutcome
    /\ upstream' = NoUpstream
    /\ creates' = 0 /\ polls' = 0 /\ sleeps' = 0 /\ slept' = 0 /\ dumps' = 0
    /\ UNCHANGED <<POLL_INTERVAL_SECONDS, MAX_POLL_CYCLES, DEBUG_DEEP_RESEARCH>>
    /\ UNCHANGED <<PARALLEL_AI_API_KEY, searchVars, pureVars, scanVars>>

ConfigureTimings ==
    \E poll_interval \in IntervalArgs, max_cycles \in CfgArgs, debug \in DebugArgs :
        configure_timings(poll_interval, max_cycles, debug)

-----------------------------------------------------------------------------
(* JSON values of the search service and requests.post outcomes *)

\* a JSON value under a key: the key is absent, null, a str, a number, or a list
Absent == [tag |-> "absent", s |-> <<>>, l |-> <<>>]
Null == [tag |-> "null", s |-> <<>>, l |-> <<>>]
Str(s) == [tag |-> "str", s |-> s, l |-> <<>>]
Num == [tag |-> "num", s |-> <<>>, l |-> <<>>]
List(l) == [tag |-> "list", s |-> <<>>, l |-> l]

\* Python truth of a value (the number stands for a non-zero one)
Truthy(v) ==
    \/ v.tag = "str" /\ v.s # <<>>
    \/ v.tag = "list" /\ v.l # <<>>
    \/ v.tag = "num"

NA == Str(<<"N", "/", "A">>)

RawResult(title, url, link, sourceURL, excerpts, snippet, description) ==
    [title |-> title, url |-> url, link |-> link, sourceURL |-> sourceURL,
     excerpts |-> excerpts, snippet |-> snippet, description |-> description]

SampleResults ==
    {RawResult(Str(<<"A">>), Str(<<"h", "a">>), Absent, Absent,
               List(<<Str(<<"E", "1">>), Str(<<"E", "2">>)>>), Absent, Absent),
     RawResult(Absent, Absent, Str(<<"h", "b">>), Absent, Absent, Str(<<"s">>), Absent),
     RawResult(Str(<<>>), Null, Absent, Absent, List(<<>>), Absent, Str(<<"d">>)),
     RawResult(Absent, Absent, Absent, Absent, Absent, Absent, Absent),
     RawResult(Str(<<"B">>), Absent, Absent, Str(<<"h", "c">>), List(<<Num>>), Absent, Absent)}

\* every shape of one upstream result: each key absent, null, empty or filled
RawResults ==
    {RawResult(t, u, l, su, e, sn, d) :
        t \in {Absent, Null, Str(<<>>), Str(<<"A">>), Num},
        u \in {Absent, Null, Str(<<>>), Str(<<"h", "a">>)},
        l \in {Absent, Str(<<"h", "b">>)},
        su \in {Absent, Str(<<"h", "c">>)},
        e \in {Absent, Null, Str(<<"E">>), List(<<>>), List(<<Str(<<>>)>>),
               List(<<Str(<<"E", "1">>), Str(<<"E", "2">>)>>), List(<<Num>>)},
        sn \in {Absent, Str(<<>>), Str(<<"s">>)},
        d \in {Absent, Str(<<"d">>)}}

\* response.json(): with a "results" list, or without the key
Bodies ==
    {[hasResults |-> FALSE, results |-> <<>>], [hasResults |-> TRUE, results |-> <<>>]}
    \cup {[hasResults |-> TRUE, results |-> <<r>>] : r \in SampleResults}
    \cup {[hasResults |-> TRUE, results |-> <<r, r>>] : r \in SampleResults}

NoBody == [hasResults |-> FALSE, results |-> <<>>]

HttpStatuses == {None, Some(400), Some(404), Some(499), Some(500), Some(599)}

\* what one requests.post, with raise_for_status and json, comes to
PostOutcomes ==
    {[kind |-> "ok", status |-> None, body |-> b] : b \in Bodies}
    \cup {[kind |-> k, status |-> None, body |-> NoBody] :
             k \in {"Timeout", "ConnectionError", "OtherError"}}
    \cup {[kind |-> "HTTPError", status |-> st, body |-> NoBody] : st \in HttpStatuses}

-----------------------------------------------------------------------------
(* web_search_service *)

BaseBackoffMs == 400
SnippetCap == 5000
JitterMs == {0, 100, 200}

RECURSIVE Pow2(_)
Pow2(n) == IF n <= 0 THEN 1 ELSE 2 * Pow2(n - 1)

Take(s, n) == SubSeq(s, 1, IF Len(s) < n THEN Len(s) ELSE n)

\* " ".join(excerpts) works on str items only
Joinable(excerpts) == \A i \in 1..Len(excerpts.l) : excerpts.l[i].tag = "str"

\* whether building the record of r raises (a TypeError of str.join)
NormalizeRaises(r) == r.excerpts.tag = "list" /\ ~Joinable(r.excerpts)

FirstTruthy(vs, default) ==
    IF \E i \in 1..Len(vs) : Truthy(vs[i])
    THEN vs[CHOOSE i \in 1..Len(vs) : Truthy(vs[i]) /\ \A j \in 1..(i - 1) : ~Truthy(vs[j])]
    ELSE default

\* r.get(key, default)
Get(v, default) == IF v.tag = "absent" THEN default ELSE v

\* faulty variant: the snippet is stored without its placeholder
NormalizeNoPlaceholder(r) ==
    LET title == IF Truthy(r.title) THEN r.title ELSE Get(r.title, NA)
        link == FirstTruthy(<<r.url, r.link, r.sourceURL>>, NA)
        snippet ==
            IF r.excerpts.tag = "list"
            THEN Str(Take(Join(<<" ">>, [i \in 1..Len(r.excerpts.l) |-> r.excerpts.l[i].s]),
                          SnippetCap))
            ELSE FirstTruthy(<<r.snippet, r.description>>, Str(<<>>))
    IN  [title |-> IF Truthy(title) THEN title ELSE NA,
         snippet |-> snippet,
         link |-> link]

\* the record search builds from one upstream result
Normalize(r) ==
    LET title == IF Truthy(r.title) THEN r.title ELSE Get(r.title, NA)
        link == FirstTruthy(<<r.url, r.link, r.sourceURL>>, NA)
        snippet ==
            IF r.excerpts.tag = "list"
            THEN Str(Take(Join(<<" ">>, [i \in 1..Len(r.excerpts.l) |-> r.excerpts.l[i].s]),
                          SnippetCap))
            ELSE FirstTruthy(<<r.snippet, r.description>>, Str(<<>>))
    IN  [title |-> IF Truthy(title) THEN title ELSE NA,
         snippet |-> IF Truthy(snippet) THEN snippet ELSE NA,
         link |-> link]

NormalizeAll(results) == [i \in 1..Len(results) |-> Normalize(results[i])]

\* faulty variant: the base of the backoff does not grow
BackoffsFlat(n) == {BaseBackoffMs + j : j \in JitterMs}

\* sleep_for = BASE_BACKOFF * (2 ** (attempt - 1)) + random.uniform(0, 0.2), in ms
Backoffs(n) == {BaseBackoffMs * Pow2(n - 1) + j : j \in JitterMs}

MaxRetriesArgs == -1..MaxRetriesArg

\* faulty variant: the call starts without the credential check
SearchStartNoKeyCheck ==
    /\ spc = "idle"
    /\ \E m \in MaxRetriesArgs : max_retries' = m
    /\ postLog' = <<>>
    /\ searchSleeps' = <<>>
    /\ attempt' = 0
    /\ endpoint' = "primary"
    /\ spc' = "loop" /\ searchOut' = NoOutcome
    /\ UNCHANGED <<PARALLEL_AI_API_KEY, llmVars, pureVars, scanVars>>

\* the call starts: the credential check, then attempt = 0 on the primary endpoint
SearchStart ==
    /\ spc = "idle"
    /\ \E m \in MaxRetriesArgs : max_retries' = m
    /\ postLog' = <<>>
    /\ searchSleeps' = <<>>
    /\ attempt' = 0
    /\ endpoint' = "primary"
    /\ IF PARALLEL_AI_API_KEY \in {"None", ""}
       THEN spc' = "returned" /\ searchOut' = Returned(<<>>)
       ELSE spc' = "loop" /\ searchOut' = NoOutcome
    /\ UNCHANGED <<PARALLEL_AI_API_KEY, llmVars, pureVars, scanVars>>

\* faulty variants of the loop condition: one attempt short, one attempt more
RetryGuardStopsEarly == attempt + 1 < max_retries
RetryGuardOneMore == attempt <= max_retries

\* while attempt < max_retries
RetryGuard == attempt < max_retries

\* the try block ran to its end
PostSucceeds(o) ==
    /\ o.kind = "ok"
    /\ IF \E i \in 1..Len(o.body.results) : NormalizeRaises(o.body.results[i])
       THEN spc' = "raised" /\ searchOut' = Raised("TypeError")
       ELSE spc' = "returned" /\ searchOut' = Returned(NormalizeAll(o.body.results))
    /\ UNCHANGED <<attempt, endpoint, searchSleeps>>

\* faulty variant: the last counted failure is raised instead of answered with []
CountedFailureRaisesAtEnd ==
    /\ attempt' = attempt + 1
    /\ IF attempt + 1 >= max_retries
       THEN spc' = "raised" /\ searchOut' = Raised("Exhausted") /\ UNCHANGED searchSleeps
       ELSE /\ \E d \in Backoffs(attempt + 1) : searchSleeps' = Append(searchSleeps, d)
            /\ UNCHANGED <<spc, searchOut>>
    /\ UNCHANGED endpoint

\* attempt += 1, then give up with [] or sleep and go round again
CountedFailure ==
    /\ attempt' = attempt + 1
    /\ IF attempt + 1 >= max_retries
       THEN spc' = "returned" /\ searchOut' = Returned(<<>>) /\ UNCHANGED searchSleeps
       ELSE /\ \E d \in Backoffs(attempt + 1) : searchSleeps' = Append(searchSleeps, d)
            /\ UNCHANGED <<spc, searchOut>>
    /\ UNCHANGED endpoint

\* except (Timeout, ConnectionError)
PostFailsNetwork(o) ==
    /\ o.kind \in {"Timeout", "ConnectionError"}
    /\ CountedFailure

\* faulty variant: a 404 on either endpoint is taken as the cue to switch
IsFallbackCaseOnAny404(o) == o.status = Some(404)

\* status == 404 and endpoint == PARALLEL_ENDPOINT_PRIMARY
IsFallbackCase(o) == o.status = Some(404) /\ endpoint = "primary"

\* faulty variant: every 4xx and 5xx status is retried
IsRetryableStatusFrom400(o) == o.status.given /\ 400 <= o.status.v /\ o.status.v < 600

\* status and 500 <= status < 600
IsRetryableStatus(o) == o.status.given /\ o.status.v # 0 /\ 500 <= o.status.v /\ o.status.v < 600

\* faulty variant: the endpoint switch uses up an attempt and backs off
PostFailsHttpCountsSwitch(o) ==
    /\ o.kind = "HTTPError"
    /\ IF IsFallbackCase(o)
       THEN /\ endpoint' = "fallback"
            /\ attempt' = attempt + 1
            /\ \E d \in Backoffs(attempt + 1) : searchSleeps' = Append(searchSleeps, d)
            /\ UNCHANGED <<spc, searchOut>>
       ELSE IF IsRetryableStatus(o)
       THEN CountedFailure
       ELSE /\ spc' = "raised" /\ searchOut' = Raised("HTTPError")
            /\ UNCHANGED <<attempt, endpoint, searchSleeps>>

\* except HTTPError
PostFailsHttp(o) ==
    /\ o.kind = "HTTPError"
    /\ IF IsFallbackCase(o)
       THEN /\ endpoint' = "fallback"
            /\ UNCHANGED <<attempt, spc, searchOut, searchSleeps>>
       ELSE IF IsRetryableStatus(o)
       THEN CountedFailure
       ELSE /\ spc' = "raised" /\ searchOut' = Raised("HTTPError")
            /\ UNCHANGED <<attempt, endpoint, searchSleeps>>

\* an exception no except clause names
PostFailsOther(o) ==
    /\ o.kind = "OtherError"
    /\ spc' = "raised" /\ searchOut' = Raised("OtherError")
    /\ UNCHANGED <<attempt, endpoint, searchSleeps>>

\* one iteration of the loop: requests.post and what follows from its outcome
SearchAttempt ==
    /\ spc = "loop"
    /\ RetryGuard
    /\ \E o \in PostOutcomes :
          /\ postLog' = Append(postLog, [endpoint |-> endpoint, outcome |-> o])
          /\ (PostSucceeds(o) \/ PostFailsNetwork(o) \/ PostFailsHttp(o) \/ PostFailsOther(o))
    /\ UNCHANGED max_retries
    /\ UNCHANGED <<PARALLEL_AI_API_KEY, llmVars, pureVars, scanVars>>

\* the loop ends without a return inside it
SearchExhausted ==
    /\ spc = "loop"
    /\ ~RetryGuard
    /\ spc' = "returned"
    /\ searchOut' = Returned(<<>>)
    /\ UNCHANGED <<max_retries, attempt, endpoint, postLog, searchSleeps>>
    /\ UNCHANGED <<PARALLEL_AI_API_KEY, llmVars, pureVars, scanVars>>

search == SearchStart \/ SearchAttempt \/ SearchExhausted

\* the caller has taken the list or the error: the frame of the call is gone
SearchCallOver ==
    /\ spc \in {"returned", "raised"}
    /\ spc' = "idle"
    /\ max_retries' = DEFAULT_MAX_RETRIES
    /\ attempt' = 0
    /\ endpoint' = "primary"
    /\ postLog' = <<>>
    /\ searchSleeps' = <<>>
    /\ searchOut' = NoOutcome
    /\ UNCHANGED <<PARALLEL_AI_API_KEY, llmVars, pureVars, scanVars>>

-----------------------------------------------------------------------------
(* Initial state: the module globals as the imports leave them, no call made *)

Init ==
    /\ POLL_INTERVAL_SECONDS = DefaultPollInterval
    /\ MAX_POLL_CYCLES = DefaultMaxPollCycles
    /\ DEBUG_DEEP_RESEARCH \in BOOLEAN
    /\ PARALLEL_AI_API_KEY \in {"None", "", "key"}
    /\ lpc = "idle"
    /\ cycles = 0
    /\ status_response = NoResponse
    /\ llmOut = NoOutcome
    /\ upstream = NoUpstream
    /\ creates = 0 /\ polls = 0 /\ sleeps = 0 /\ slept = 0 /\ dumps = 0
    /\ spc = "idle"
    /\ max_retries = DEFAULT_MAX_RETRIES
    /\ attempt = 0
    /\ endpoint = "primary"
    /\ postLog = <<>>
    /\ searchSleeps = <<>>
    /\ searchOut = NoOutcome
    /\ call = NoCall
    /\ ret = NoOutcome
    /\ jobs = 0
    /\ Unscanned

NextPoll == ConfigureTimings \/ Create \/ Poll \/ TimedOut \/ LlmCallOver

SpecPoll == Init /\ [][NextPoll]_vars

NextSearch == SearchStart \/ SearchAttempt \/ SearchExhausted \/ SearchCallOver

SpecSearch == Init /\ [][NextSearch]_vars

\* the program is single-threaded: a call of _call_responses_api and a call of
\* search never overlap
NextCore == (spc = "idle" /\ NextPoll) \/ (lpc = "idle" /\ NextSearch)

SpecCore == Init /\ [][NextCore]_vars

\* a call of search that has begun goes on: the loop is straight-line code
SpecSearchFair == SpecSearch /\ WF_vars(SearchAttempt \/ SearchExhausted)

SpecPollFair == SpecPoll /\ WF_vars(Poll \/ TimedOut)

-----------------------------------------------------------------------------
(* JSON documents with objects, and the text a generative job returns *)

JNull == [tag |-> "null"]
JStr(s) == [tag |-> "str", s |-> s]
JNum(n) == [tag |-> "num", n |-> n]
JList(items) == [tag |-> "list", items |-> items]
JDict(d) == [tag |-> "dict", d |-> d]

EmptyDict == JDict(<<>>)
EmptyList == JList(<<>>)

\* Python truth of a JSON value
JTruthy(j) ==
    CASE j.tag = "null" -> FALSE
      [] j.tag = "str" -> j.s # ""
      [] j.tag = "num" -> j.n # 0
      [] j.tag = "list" -> j.items # <<>>
      [] j.tag = "dict" -> DOMAIN j.d # {}

\* k in j, j.get(k, default), j[k] = v on a dict j
Has(j, k) == k \in DOMAIN j.d
DictGet(j, k, default) == IF Has(j, k) THEN j.d[k] ELSE default
DictPut(j, k, v) == JDict([x \in DOMAIN j.d \cup {k} |-> IF x = k THEN v ELSE j.d[x]])

\* the objects over some of the keys, with values from vals
Dicts(keys, vals) == {JDict(f) : f \in UNION {[ks -> vals] : ks \in SUBSET keys}}

\* a job's returned text, by what json.loads and the fenced-block search make of
\* it: a JSON document, a ```json block around one, such a block that does not
\* parse, prose, an "Error: ..." sentinel, or the empty string
JsonText(v) == [form |-> "json", value |-> v]
FencedText(v) == [form |-> "fenced", value |-> v]
OtherTexts ==
    {[form |-> f, value |-> JNull] : f \in {"fenced_bad", "prose", "sentinel", "empty"}}

-----------------------------------------------------------------------------
(* llm_service: domain maps *)

Bands == <<"Core", "Adjacent", "Peripheral">>
BandNames == {Bands[i] : i \in 1..Len(Bands)}

CanonicalEmpty(category) ==
    JDict([t \in {"topics"} |->
        JDict([b \in BandNames |-> JDict([c \in {category} |-> EmptyList])])])

\* raw.get(band) or [], then kept if a dict, else wrapped under the category
BandMap(raw, band, category) ==
    LET got == DictGet(raw, band, JNull)
        v == IF JTruthy(got) THEN got ELSE EmptyList
    IN  IF v.tag = "dict" THEN v
        ELSE JDict([c \in {category} |-> IF v.tag = "list" THEN v ELSE EmptyList])

\* faulty variant: an already nested map is rebuilt from its flat keys
_normalize_domain_map_rebuilds(raw, category) ==
    IF raw.tag # "dict" THEN CanonicalEmpty(category)
    ELSE JDict([t \in {"topics"} |->
            JDict([b \in BandNames |-> BandMap(raw, b, category)])])

_normalize_domain_map(raw, category) ==
    IF raw.tag # "dict" THEN CanonicalEmpty(category)
    ELSE IF Has(raw, "topics") /\ raw.d["topics"].tag = "dict" THEN raw
    ELSE JDict([t \in {"topics"} |->
            JDict([b \in BandNames |-> BandMap(raw, b, category)])])

\* json.loads, else the first ```json {...} ``` block, else {}
LoadObject(text) ==
    CASE text.form = "json" -> text.value
      [] text.form = "fenced" /\ text.value.tag = "dict" -> text.value
      [] OTHER -> EmptyDict

\* one round of the fallback loop on normalized["topics"]; ok is FALSE when
\* the round raises AttributeError (.get or .append on a value without it)
FillBand(topicsD, i, source_topics, cat_key) ==
    LET band == Bands[i]
        bandv == DictGet(topicsD, band, EmptyDict)
    IN  IF bandv.tag # "dict" THEN [ok |-> FALSE, d |-> topicsD]
        ELSE LET band_list == DictGet(bandv, cat_key, EmptyList)
                 choice == source_topics[((i - 1) % Len(source_topics)) + 1]
             IN  IF JTruthy(band_list) THEN [ok |-> TRUE, d |-> topicsD]
                 ELSE IF band_list.tag # "list" THEN [ok |-> FALSE, d |-> topicsD]
                 ELSE [ok |-> TRUE,
                       d |-> DictPut(topicsD, band,
                                DictPut(bandv, cat_key,
                                    JList(Append(band_list.items, choice))))]

\* faulty variant: the fallback loop leaves its last band out
RECURSIVE FillBandsButLast(_, _, _, _)
FillBandsButLast(topicsD, i, source_topics, cat_key) ==
    IF i >= Len(Bands) THEN [ok |-> TRUE, d |-> topicsD]
    ELSE LET step == FillBand(topicsD, i, source_topics, cat_key)
         IN  IF step.ok THEN FillBandsButLast(step.d, i + 1, source_topics, cat_key)
             ELSE step

\* the rounds i, i+1, ... of the fallback loop
RECURSIVE FillBands(_, _, _, _)
FillBands(topicsD, i, source_topics, cat_key) ==
    IF i > Len(Bands) THEN [ok |-> TRUE, d |-> topicsD]
    ELSE LET step == FillBand(topicsD, i, source_topics, cat_key)
         IN  IF step.ok THEN FillBands(step.d, i + 1, source_topics, cat_key)
             ELSE step

\* what generate_domain_map comes to, given the text its job returned
DomainMapOutcome(text, topics, category) ==
    LET normalized == _normalize_domain_map(LoadObject(text), category)
        filled == FillBands(normalized.d["topics"], 1, topics, category)
    IN  IF topics = <<>> THEN Returned(normalized)
        ELSE IF filled.ok THEN Returned(DictPut(normalized, "topics", filled.d))
        ELSE Raised("AttributeError")

-----------------------------------------------------------------------------
(* llm_service: heading heuristic. A text is the sequence of its lines, a line
   the sequence of its characters *)

MinTopicLen == 3
MaxTopicLen == 120
MaxHashes == 6
MinPhraseLen == 3
DefaultMaxTopics == 12

UpperLetters ==
    <<"A", "B", "C", "D", "E", "F", "G", "H", "I", "J", "K", "L", "M",
      "N", "O", "P", "Q", "R", "S", "T", "U", "V", "W", "X", "Y", "Z">>
LowerLetters ==
    <<"a", "b", "c", "d", "e", "f", "g", "h", "i", "j", "k", "l", "m",
      "n", "o", "p", "q", "r", "s", "t", "u", "v", "w", "x", "y", "z">>
UpperSet == {UpperLetters[i] : i \in 1..Len(UpperLetters)}
LowerSet == {LowerLetters[i] : i \in 1..Len(LowerLetters)}
Digits == {"0", "1", "2", "3", "4", "5", "6", "7", "8", "9"}
\* the class [A-Za-z0-9 &/-]
PhraseChars == UpperSet \cup LowerSet \cup Digits \cup {" ", "&", "/", "-"}

\* str.lower()
LowerChar(c) ==
    IF c \in UpperSet
    THEN LowerLetters[CHOOSE i \in 1..Len(UpperLetters) : UpperLetters[i] = c]
    ELSE c
Lower(s) == [i \in 1..Len(s) |-> LowerChar(s[i])]

\* how many characters of s, from its start, lie in the class
Leading(s, class) ==
    CHOOSE n \in 0..Len(s) :
        /\ \A i \in 1..n : s[i] \in class
        /\ n = Len(s) \/ s[n + 1] \notin class

Drop(s, n) == SubSeq(s, n + 1, Len(s))

\* the alternatives of HEADING_PATTERN at the start of a line
HashHeading(line) ==
    LET h == Leading(line, {"#"})
    IN  1 <= h /\ h <= MaxHashes /\ h < Len(line) /\ line[h + 1] \in Whitespace
NumberedHeading(line) ==
    LET d == Leading(line, Digits)
    IN  1 <= d /\ d < Len(line) /\ line[d + 1] = "."
ColonHeading(line) ==
    /\ line # <<>> /\ line[1] \in UpperSet
    /\ \E p \in (MinPhraseLen + 2)..Len(line) :
          line[p] = ":" /\ \A i \in 2..(p - 1) : line[i] \in PhraseChars

HEADING_PATTERN(line) == HashHeading(line) \/ NumberedHeading(line) \/ ColonHeading(line)

\* re.sub(r"^(#{1,6}\s+|\d+\.\s*)", "", line)
StripMarker(line) ==
    IF HashHeading(line)
    THEN LET rest == Drop(line, Leading(line, {"#"})) IN Drop(rest, Leading(rest, Whitespace))
    ELSE IF NumberedHeading(line)
    THEN LET rest == Drop(line, Leading(line, Digits) + 1)
         IN  Drop(rest, Leading(rest, Whitespace))
    ELSE line

\* str.rstrip(':')
RECURSIVE RStripColon(_)
RStripColon(s) ==
    IF s # <<>> /\ s[Len(s)] = ":" THEN RStripColon(SubSeq(s, 1, Len(s) - 1)) ELSE s

Cleaned(line) == Strip(RStripColon(StripMarker(line)))

StopList ==
    {<<"i", "n", "t", "r", "o", "d", "u", "c", "t", "i", "o", "n">>,
     <<"c", "o", "n", "c", "l", "u", "s", "i", "o", "n">>,
     <<"e", "x", "e", "c", "u", "t", "i", "v", "e", " ", "s", "u", "m", "m", "a", "r", "y">>}

\* whether the line adds a topic to those found so far
Accepts(line, topics) ==
    /\ line # <<>>
    /\ HEADING_PATTERN(line)
    /\ MinTopicLen <= Len(Cleaned(line)) /\ Len(Cleaned(line)) <= MaxTopicLen
    /\ Lower(Cleaned(line)) \notin StopList
    /\ \A j \in 1..Len(topics) : Lower(topics[j]) # Lower(Cleaned(line))

\* the loop over the lines from line i on, with the topics found so far
RECURSIVE ScanLines(_, _, _, _)
ScanLines(lines, i, topics, max_topics) ==
    IF i > Len(lines) THEN topics
    ELSE LET line == Strip(lines[i])
         IN  IF Accepts(line, topics)
             THEN IF Len(topics) + 1 >= max_topics
                  THEN Append(topics, Cleaned(line))
                  ELSE ScanLines(lines, i + 1, Append(topics, Cleaned(line)), max_topics)
             ELSE ScanLines(lines, i + 1, topics, max_topics)

_heuristic_topics(dr_text, max_topics) == ScanLines(dr_text, 1, <<>>, max_topics)

-----------------------------------------------------------------------------
(* llm_service: parse_research *)

\* faulty variant: the record of a failed parse lacks concepts
DefaultRecordTwoKeys ==
    JDict([k \in {"topics", "entities"} |-> EmptyList])

DefaultRecord ==
    JDict([k \in {"topics", "entities", "concepts"} |-> EmptyList])

\* json.loads, else the first ```json {...} ``` block, else None; anything
\* but an object is replaced by the record of three empty lists
LoadRecord(text) ==
    LET data == CASE text.form = "json" -> text.value
                  [] text.form = "fenced" /\ text.value.tag = "dict" -> text.value
                  [] OTHER -> JNull
    IN  IF data.tag = "dict" THEN data ELSE DefaultRecord

ErrorPrefix == <<"E", "r", "r", "o", "r", ":">>

\* faulty variant: no report counts as a failure string
StartsWithErrorNever(dr_text) == FALSE

\* dr_text.startswith("Error:")
StartsWithError(dr_text) ==
    /\ dr_text # <<>>
    /\ Len(dr_text[1]) >= Len(ErrorPrefix)
    /\ SubSeq(dr_text[1], 1, Len(ErrorPrefix)) = ErrorPrefix

\* what parse_research returns, given the text its job returned
ParseOutcome(text, dr_text) ==
    LET data == LoadRecord(text)
    IN  IF /\ ~JTruthy(DictGet(data, "topics", JNull))
           /\ dr_text # <<>>
           /\ ~StartsWithError(dr_text)
        THEN DictPut(data, "topics", JList(_heuristic_topics(dr_text, DefaultMaxTopics)))
        ELSE data

-----------------------------------------------------------------------------
(* scenario_service: score_scenarios. The numbers of a score item are held in
   thousandths, so JNum(3 * Milli) is the score 3 and JNum(2750) is 2.75 *)

Milli == 1000
ImpactWeight == 30
PlausibilityWeight == 25
NoveltyWeight == 20
ClarityWeight == 15
UncertaintyWeight == 10
FallbackDimension == 3
FallbackUncertainty == 2

Dimensions == <<"impact", "plausibility", "novelty", "clarity", "uncertainty_coverage">>
DimensionNames == {Dimensions[i] : i \in 1..Len(Dimensions)}
\* faulty variant: every dimension weighs the same
WeightsEven == <<NoveltyWeight, NoveltyWeight, NoveltyWeight, NoveltyWeight, NoveltyWeight>>
Weights == <<ImpactWeight, PlausibilityWeight, NoveltyWeight, ClarityWeight, UncertaintyWeight>>
FallbackExplanation == JStr("Heuristic fallback scoring due to LLM parse failure.")

\* item.get(dimension, 0) for each dimension is a number
Computable(item) ==
    \A k \in DimensionNames : DictGet(item, k, JNum(0)).tag = "num"

\* the five products weight * dimension summed, weights being hundredths: the
\* sum counts hundred-thousandths
RECURSIVE WeightedSumFrom(_, _)
WeightedSumFrom(item, i) ==
    IF i > Len(Dimensions) THEN 0
    ELSE Weights[i] * DictGet(item, Dimensions[i], JNum(0)).n + WeightedSumFrom(item, i + 1)

WeightedSum(item) == WeightedSumFrom(item, 1)

\* faulty variant: round(x, 2) cuts the digits off
Round2Truncates(x) == {(x \div Milli) * 10}

\* round(x, 2) of a float sum: the nearest hundredth; when x lies half way
\* the float's error decides, so either neighbour can come out
Round2(x) ==
    LET q == x \div Milli
        r == x % Milli
    IN  IF 2 * r < Milli THEN {q * 10}
        ELSE IF 2 * r > Milli THEN {(q + 1) * 10}
        ELSE {q * 10, (q + 1) * 10}

\* the values overall_score can take for an item without it
OverallScores(item) ==
    IF Computable(item) THEN {JNum(v) : v \in Round2(WeightedSum(item))} ELSE {JNum(0)}

\* the item after the loop that ensures overall_score
Completed(item) ==
    IF Has(item, "overall_score") THEN {item}
    ELSE {DictPut(item, "overall_score", o) : o \in OverallScores(item)}

\* faulty variant: the heuristic item carries no title
FallbackItemUntitled(scenario) ==
    LET dims == JDict([k \in DimensionNames |->
                    IF k = "uncertainty_coverage" THEN JNum(FallbackUncertainty * Milli)
                    ELSE JNum(FallbackDimension * Milli)])
        o == CHOOSE v \in Round2(WeightedSum(dims)) : TRUE
    IN  JDict(dims.d @@ [k \in {"title", "explanation", "overall_score"} |->
                  CASE k = "title" -> JNull
                    [] k = "explanation" -> FallbackExplanation
                    [] OTHER -> JNum(o)])

\* the heuristic item of one scenario
FallbackItem(scenario) ==
    LET dims == JDict([k \in DimensionNames |->
                    IF k = "uncertainty_coverage" THEN JNum(FallbackUncertainty * Milli)
                    ELSE JNum(FallbackDimension * Milli)])
        o == CHOOSE v \in Round2(WeightedSum(dims)) : TRUE
    IN  JDict(dims.d @@ [k \in {"title", "explanation", "overall_score"} |->
                  CASE k = "title" -> JStr(scenario.title)
                    [] k = "explanation" -> FallbackExplanation
                    [] OTHER -> JNum(o)])

\* json.loads, else the first ```json [...] ``` block, else []
LoadArray(text) ==
    CASE text.form = "json" -> text.value
      [] text.form = "fenced" /\ text.value.tag = "list" -> text.value
      [] OTHER -> EmptyList

\* data as it enters the final loop
ScoreData(text, scenarios) ==
    LET data == LoadArray(text)
    IN  IF data.tag # "list" \/ data.items = <<>>
        THEN [i \in 1..Len(scenarios) |-> FallbackItem(scenarios[i])]
        ELSE data.items

\* how the call can end once the job has answered; an item that is no object
\* makes the final loop raise TypeError (the documents here hold no str or
\* list item containing 'overall_score', which would pass the membership test)
ScoreOutcomes(text, scenarios) ==
    LET data == ScoreData(text, scenarios)
    IN  IF \E i \in 1..Len(data) : data[i].tag # "dict"
        THEN {Raised("TypeError")}
        ELSE {Returned(f) : f \in {g \in [1..Len(data) -> UNION {Completed(data[i]) : i \in 1..Len(data)}] :
                                       \A i \in 1..Len(data) : g[i] \in Completed(data[i])}}

-----------------------------------------------------------------------------
(* The operations above the two clients, each applied to inputs drawn in the
   initial state; the clients themselves stay idle *)

Quiet ==
    /\ POLL_INTERVAL_SECONDS = DefaultPollInterval
    /\ MAX_POLL_CYCLES = DefaultMaxPollCycles
    /\ DEBUG_DEEP_RESEARCH = FALSE
    /\ PARALLEL_AI_API_KEY = "key"
    /\ lpc = "idle"
    /\ cycles = 0
    /\ status_response = NoResponse
    /\ llmOut = NoOutcome
    /\ upstream = NoUpstream
    /\ creates = 0 /\ polls = 0 /\ sleeps = 0 /\ slept = 0 /\ dumps = 0
    /\ spc = "idle"
    /\ max_retries = DEFAULT_MAX_RETRIES
    /\ attempt = 0
    /\ endpoint = "primary"
    /\ postLog = <<>>
    /\ searchSleeps = <<>>
    /\ searchOut = NoOutcome

Ended == ret.kind # "none"

\* the body of search between a successful post and its return
NormalizeResponse ==
    /\ call.fn = "normalize" /\ ~Ended
    /\ ret' = IF \E i \in 1..Len(call.results) : NormalizeRaises(call.results[i])
              THEN Raised("TypeError")
              ELSE Returned(NormalizeAll(call.results))
    /\ UNCHANGED <<llmVars, PARALLEL_AI_API_KEY, searchVars, scanVars, call, jobs>>

InitNormalize ==
    /\ Quiet
    /\ call \in {[fn |-> "normalize", results |-> rs] :
                    rs \in {<<>>} \cup {<<r>> : r \in RawResults}}
    /\ ret = NoOutcome
    /\ jobs = 0
    /\ Unscanned

NextNormalize == NormalizeResponse

SpecNormalize == InitNormalize /\ [][NextNormalize]_vars

\* the documents a domain-map job may answer with: a band is missing, null, a
\* list, a str, or a map from categories to lists or null
MaxTopics == 3
TopicNames == <<"t1", "t2", "t3", "t4", "t5">>
TopicLists == {SubSeq(TopicNames, 1, n) : n \in 0..MaxTopics}
Categories == {"Social"}
OtherCategory == "Technological"

CategoryMaps ==
    {JDict(a.d @@ b.d) :
        a \in Dicts(Categories, {JNull, EmptyList, JList(<<"x">>)}),
        b \in Dicts({OtherCategory}, {JList(<<"y">>)})}

BandValues == CategoryMaps \cup {JNull, EmptyList, JList(<<"x">>), JStr("s")}
BandDocs == Dicts(BandNames, BandValues)

DomainDocs ==
    BandDocs
    \cup {JDict([t \in {"topics"} |-> b]) : b \in BandDocs}
    \cup {JDict([t \in {"topics"} |-> v]) : v \in {JNull, JList(<<"x">>)}}
    \cup {JNull, JList(<<"x">>), JStr("s"), JNum(1)}

FencedDocs ==
    {EmptyDict, EmptyList,
     JDict([b \in {"Core"} |-> JList(<<"x">>)]),
     JDict([t \in {"topics"} |-> JDict([b \in {"Core"} |-> EmptyList])])}

DomainTexts ==
    {JsonText(v) : v \in DomainDocs} \cup {FencedText(v) : v \in FencedDocs} \cup OtherTexts

generate_domain_map ==
    /\ call.fn = "generate_domain_map" /\ ~Ended
    /\ jobs' = jobs + 1
    /\ ret' = DomainMapOutcome(call.text, call.topics, call.category)
    /\ UNCHANGED <<llmVars, PARALLEL_AI_API_KEY, searchVars, scanVars, call>>

NormalizeDomainMap ==
    /\ call.fn = "_normalize_domain_map" /\ ~Ended
    /\ ret' = Returned(_normalize_domain_map(call.raw, call.category))
    /\ UNCHANGED <<llmVars, PARALLEL_AI_API_KEY, searchVars, scanVars, call, jobs>>

InitDomainMap ==
    /\ Quiet
    /\ call \in {[fn |-> "generate_domain_map", text |-> x, topics |-> ts, category |-> c] :
                    x \in DomainTexts, ts \in TopicLists, c \in Categories}
               \cup {[fn |-> "_normalize_domain_map", raw |-> v, category |-> c] :
                         v \in DomainDocs, c \in Categories}
    /\ ret = NoOutcome
    /\ jobs = 0
    /\ Unscanned

NextDomainMap == generate_domain_map \/ NormalizeDomainMap

SpecDomainMap == InitDomainMap /\ [][NextDomainMap]_vars

\* report texts: up to MaxLines lines, each a heading of one of the three
\* kinds, a heading that is filtered out, or plain text
MaxLines == 3
MaxCap == 2
LongLine == <<"#", " ">> \o [i \in 1..(MaxTopicLen + 1) |-> "x"]
HeadingLines ==
    {<<"#", " ", "A", "l", "p", "h", "a">>,
     <<"#", "#", " ", "A", "L", "P", "H", "A">>,
     <<"2", ".", " ", "B", "e", "t", "a">>,
     <<"G", "a", "m", "m", "a", ":", " ", "x">>,
     <<" ", " ", "#", " ", "I", "n", "t", "r", "o", "d", "u", "c", "t", "i", "o", "n", " ", " ">>,
     <<"p", "l", "a", "i", "n", " ", "t", "e", "x", "t">>,
     <<"#", " ", "a", "b">>,
     LongLine}
HeadingTexts == UNION {[1..n -> HeadingLines] : n \in 0..MaxLines}
CapArgs == -1..MaxCap

\* inputs of parse_research: the report it is given and the answer of its job
MaxReportLines == 2
ReportLines ==
    {<<"E", "r", "r", "o", "r", ":", " ", "T", "a", "s", "k", " ", "f", "a", "i", "l", "e", "d">>,
     <<"#", " ", "A", "l", "p", "h", "a">>,
     <<"2", ".", " ", "B", "e", "t", "a">>,
     <<"p", "l", "a", "i", "n", " ", "t", "e", "x", "t">>}
ReportTexts == UNION {[1..n -> ReportLines] : n \in 0..MaxReportLines}

RecordDocs ==
    {JDict(a.d @@ b.d @@ c.d) :
        a \in Dicts({"topics"}, {JNull, EmptyList, JList(<<<<"A">>>>), JNum(5)}),
        b \in Dicts({"entities"}, {EmptyList, JList(<<<<"e">>>>)}),
        c \in Dicts({"concepts"}, {JList(<<<<"c">>>>)})}

ParseDocs == RecordDocs \cup {JNull, JList(<<<<"A">>>>), JStr("s"), JNum(1)}

ParseTexts ==
    {JsonText(v) : v \in ParseDocs}
    \cup {FencedText(v) : v \in {EmptyDict, DefaultRecord, EmptyList}}
    \cup OtherTexts

parse_research ==
    /\ call.fn = "parse_research" /\ ~Ended
    /\ jobs' = jobs + 1
    /\ ret' = Returned(ParseOutcome(call.text, call.dr_text))
    /\ UNCHANGED <<llmVars, PARALLEL_AI_API_KEY, searchVars, scanVars, call>>

HeuristicTopics ==
    /\ call.fn = "_heuristic_topics" /\ ~Ended
    /\ ret' = Returned(_heuristic_topics(call.dr_text, call.max_topics))
    /\ UNCHANGED <<llmVars, PARALLEL_AI_API_KEY, searchVars, scanVars, call, jobs>>

InitResearch ==
    /\ Quiet
    /\ call \in {[fn |-> "parse_research", text |-> x, dr_text |-> t] :
                    x \in ParseTexts, t \in ReportTexts}
               \cup {[fn |-> "_heuristic_topics", dr_text |-> t, max_topics |-> m] :
                         t \in HeadingTexts, m \in CapArgs \cup {DefaultMaxTopics}}
    /\ ret = NoOutcome
    /\ jobs = 0
    /\ Unscanned

NextResearch == parse_research \/ HeuristicTopics

SpecResearch == InitResearch /\ [][NextResearch]_vars

\* inputs of score_scenarios: the scenarios and the answer of the scoring job
MaxScenarios == 2
ScenarioTitles == <<"S1", "S2", "S3", "S4">>
ScenarioLists ==
    {[i \in 1..n |-> [title |-> ScenarioTitles[i], body |-> "body"]] : n \in 0..MaxScenarios}

\* score items: each dimension missing or a number (1, 2.5, 2.75 or 5), impact
\* also null or a str;
\* with or without an overall_score of their own
ScoreItems ==
    {JDict(a.d @@ b.d @@ c.d @@ d.d @@ e.d @@ o.d) :
        a \in Dicts({"impact"}, {JNum(Milli), JNum(2500), JNum(5 * Milli), JNull, JStr("x")}),
        b \in Dicts({"plausibility"}, {JNum(Milli), JNum(2750)}),
        c \in Dicts({"novelty"}, {JNum(Milli), JNum(2500)}),
        d \in Dicts({"clarity"}, {JNum(Milli), JNum(2500)}),
        e \in Dicts({"uncertainty_coverage"}, {JNum(Milli), JNum(2500)}),
        o \in Dicts({"overall_score"}, {JNum(9 * Milli)})}

FallbackLike ==
    JDict([k \in DimensionNames |->
        IF k = "uncertainty_coverage" THEN JNum(FallbackUncertainty * Milli)
        ELSE JNum(FallbackDimension * Milli)])

ScoreDocs ==
    {JList(<<x>>) : x \in ScoreItems \cup {FallbackLike, JNum(Milli), JStr("s"), JNull}}
    \cup {JList(<<FallbackLike, x>>) : x \in {FallbackLike, EmptyDict, JNum(Milli)}}
    \cup {EmptyList, EmptyDict, FallbackLike, JNull, JNum(Milli)}

ScoreTexts ==
    {JsonText(v) : v \in ScoreDocs}
    \cup {FencedText(v) : v \in {JList(<<FallbackLike>>), EmptyList, EmptyDict}}
    \cup OtherTexts

\* faulty variant: the job is created before the list is looked at
score_scenarios_always_calls ==
    /\ call.fn = "score_scenarios" /\ ~Ended
    /\ jobs' = jobs + 1
    /\ IF call.scenarios = <<>>
       THEN ret' = Returned(<<>>)
       ELSE ret' \in ScoreOutcomes(call.text, call.scenarios)
    /\ UNCHANGED <<llmVars, PARALLEL_AI_API_KEY, searchVars, scanVars, call>>

score_scenarios ==
    /\ call.fn = "score_scenarios" /\ ~Ended
    /\ IF call.scenarios = <<>>
       THEN ret' = Returned(<<>>) /\ jobs' = jobs
       ELSE jobs' = jobs + 1 /\ ret' \in ScoreOutcomes(call.text, call.scenarios)
    /\ UNCHANGED <<llmVars, PARALLEL_AI_API_KEY, searchVars, scanVars, call>>

InitScore ==
    /\ Quiet
    /\ call \in {[fn |-> "score_scenarios", scenarios |-> ss, text |-> x] :
                    ss \in ScenarioLists, x \in ScoreTexts}
    /\ ret = NoOutcome
    /\ jobs = 0
    /\ Unscanned

NextScore == score_scenarios

SpecScore == InitScore /\ [][NextScore]_vars

-----------------------------------------------------------------------------
(* Properties of _call_responses_api *)

LlmEnded == lpc \in {"returned", "raised"}

\* the job answers `completed` on a status fetch the cycle budget allows
CompletesInBudget ==
    /\ ~upstream.createFails
    /\ upstream.end = "completed"
    /\ upstream.pre + 1 <= MAX_POLL_CYCLES

\* the completed status object carries message text
HasMessageText == MessageTexts(status_response.output) # <<>>

PollsToCompletion ==
    /\ CompletesInBudget => polls <= upstream.pre + 1
    /\ LlmEnded /\ CompletesInBudget =>
          /\ lpc = "returned"
          /\ status_response.status = "completed"
          /\ creates = 1
          /\ polls = upstream.pre + 1

\* C1 as stated: after k non-terminal polls and a completed poll k+1 that carries
\* message text (k+1 <= MAX_POLL_CYCLES), the call returns that text, as the service
\* sent it, after one job creation and exactly k+1 polls.
C1_ReturnsTextAsSent ==
    /\ PollsToCompletion
    /\ LlmEnded /\ CompletesInBudget /\ HasMessageText =>
          llmOut = Returned(Join(<<"\n", "\n">>, MessageTexts(status_response.output)))

\* C1 amended: after k non-terminal polls and a completed poll k+1 that carries
\* message text (k+1 <= MAX_POLL_CYCLES), the call returns that text with its
\* leading and trailing whitespace removed, after one job creation and exactly
\* k+1 polls.
C1_ReturnsStrippedText ==
    /\ PollsToCompletion
    /\ LlmEnded /\ CompletesInBudget /\ HasMessageText =>
          llmOut = Returned(Strip(Join(<<"\n", "\n">>, MessageTexts(status_response.output))))

\* two non-terminal polls, then completed on the last poll the budget allows
C1_Witness ==
    /\ lpc = "returned"
    /\ upstream.end = "completed" /\ upstream.pre = 1
    /\ MAX_POLL_CYCLES = 2
    /\ polls = 2 /\ creates = 1
    /\ MessageTexts(status_response.output) = <<<<" ", "body", "\n">>>>
    /\ llmOut = Returned(<<"body">>)

\* every status fetch the budget allows answers a non-terminal status
NeverTerminalInBudget ==
    /\ ~upstream.createFails
    /\ upstream.end = "never" \/ upstream.pre >= MAX_POLL_CYCLES

C2_Safety ==
    /\ polls <= MAX_POLL_CYCLES
    /\ LlmEnded /\ NeverTerminalInBudget =>
          /\ llmOut = Returned(TimeoutSentinel)
          /\ polls = MAX_POLL_CYCLES
          /\ creates = 1

\* C2: when every status poll answers a non-terminal status the call makes exactly
\* MAX_POLL_CYCLES polls and returns the timeout sentinel without raising; no call
\* makes more than MAX_POLL_CYCLES polls, and every call ends.
C2_TimesOutAfterBudget == [](C2_Safety) /\ ((lpc = "polling") ~> LlmEnded)

\* budget 2, a job that never ends: two polls, then the sentinel
C2_Witness ==
    /\ lpc = "returned"
    /\ upstream.end = "never"
    /\ MAX_POLL_CYCLES = 2
    /\ polls = 2
    /\ llmOut = Returned(TimeoutSentinel)

\* C3: a poll that answers failed or cancelled ends the call on that poll, with no
\* further poll and no sleep after it; the call returns
\* "Error: Task <status>. Details: <error>" and does not raise.
C3_FailedReturnsSentinel ==
    status_response.status \in {"failed", "cancelled"} =>
        /\ lpc = "returned"
        /\ llmOut = Returned(<<"Error: Task ", status_response.status, ". Details: ",
                               status_response.error>>)
        /\ polls = upstream.pre + 1
        /\ sleeps = polls - 1
        /\ slept = (polls - 1) * POLL_INTERVAL_SECONDS

C3_Witness ==
    /\ lpc = "returned"
    /\ status_response.status = "cancelled"
    /\ status_response.error = "server_error"
    /\ polls = 2 /\ sleeps = 1
    /\ llmOut.value = <<"Error: Task ", "cancelled", ". Details: ", "server_error">>

\* the remote call of this call that errors: the creation, or status fetch pre+1
CreationErrored == upstream.createFails /\ creates >= 1
FetchErrored == ~upstream.createFails /\ upstream.end = "error" /\ polls > upstream.pre

\* C4: an error of the remote call, at job creation or at a status fetch, reaches
\* the caller at once as that error: no retry, no error string, no further poll,
\* and no poll at all when the creation fails.
C4_RemoteErrorPropagates ==
    /\ CreationErrored =>
          /\ lpc = "raised" /\ llmOut = Raised(upstream.err)
          /\ creates = 1 /\ polls = 0 /\ sleeps = 0
    /\ FetchErrored =>
          /\ lpc = "raised" /\ llmOut = Raised(upstream.err)
          /\ creates = 1 /\ polls = upstream.pre + 1 /\ sleeps = upstream.pre
    /\ lpc = "raised" => CreationErrored \/ FetchErrored

\* the third status fetch errors after two pending polls
C4_Witness ==
    /\ lpc = "raised"
    /\ upstream.end = "error" /\ upstream.pre = 2 /\ upstream.err = "OtherError"
    /\ polls = 3 /\ sleeps = 2
    /\ llmOut = Raised("OtherError")

-----------------------------------------------------------------------------
(* Properties of search *)

SearchEnded == spc \in {"returned", "raised"}

HasKey == PARALLEL_AI_API_KEY \notin {"None", ""}

Last(log) == log[Len(log)]

Is5xx(o) == o.kind = "HTTPError" /\ o.status.given /\ o.status.v \in 500..599
Is404(o) == o.kind = "HTTPError" /\ o.status = Some(404)

\* a failure that uses up one attempt of the budget
RetryableFailure(o) == o.kind \in {"Timeout", "ConnectionError"} \/ Is5xx(o)

\* the 404 that makes the call switch endpoints
Switch(e) == Is404(e.outcome) /\ e.endpoint = "primary"

CountedFailures(log) == Cardinality({i \in 1..Len(log) : RetryableFailure(log[i].outcome)})
Switches(log) == Cardinality({i \in 1..Len(log) : Switch(log[i])})

\* a response in the documented shape: every excerpts list holds strings
WellFormed(body) == \A i \in 1..Len(body.results) : ~NormalizeRaises(body.results[i])

\* the log is k retryable failures, no 404 among them, and nothing else
OnlyRetryableFailures(log) == \A i \in 1..Len(log) : RetryableFailure(log[i].outcome)

\* C5: k retryable failures (timeouts, connection errors, 5xx in any mix, no 404)
\* followed by a successful response, k < max_retries, give the normalized results
\* of that response after exactly k+1 network attempts: the call does not end while
\* fewer than max_retries such failures have happened, makes no attempt beyond the
\* budget, and returns on the successful attempt.
C5_RetriesThenSucceeds ==
    /\ SearchEnded /\ HasKey /\ OnlyRetryableFailures(postLog) =>
          Len(postLog) >= max_retries
    /\ postLog # <<>> /\ OnlyRetryableFailures(SubSeq(postLog, 1, Len(postLog) - 1)) =>
          Len(postLog) - 1 < max_retries
    /\ /\ postLog # <<>>
       /\ OnlyRetryableFailures(SubSeq(postLog, 1, Len(postLog) - 1))
       /\ Last(postLog).outcome.kind = "ok"
       /\ WellFormed(Last(postLog).outcome.body)
       => /\ spc = "returned"
          /\ searchOut = Returned(NormalizeAll(Last(postLog).outcome.body.results))
          /\ attempt = Len(postLog) - 1

\* a timeout and a 503-class error, then success on the third attempt of three
C5_Witness ==
    /\ spc = "returned"
    /\ max_retries = 3
    /\ Len(postLog) = 3
    /\ postLog[1].outcome.kind = "Timeout"
    /\ postLog[2].outcome.status = Some(599)
    /\ postLog[3].outcome.kind = "ok"
    /\ searchOut.value =
          <<[title |-> Str(<<"A">>), snippet |-> Str(<<"E", "1", " ", "E", "2">>),
             link |-> Str(<<"h", "a">>)]>>

\* the budget is used up: max_retries >= 1 counted attempts, each a retryable failure
BudgetUsedUp == max_retries >= 1 /\ CountedFailures(postLog) = max_retries

\* C6 as stated: when the first max_retries counted attempts each end in a retryable
\* failure, search returns [] after exactly max_retries network attempts.
C6_ExhaustsAfterMaxRetriesPosts ==
    spc # "idle" /\ BudgetUsedUp =>
        /\ spc = "returned" /\ searchOut = Returned(<<>>)
        /\ Len(postLog) = max_retries

\* C6 amended: when the first max_retries counted attempts each end in a retryable
\* failure, search returns [] and does not raise, after exactly max_retries counted
\* network attempts, plus the one uncounted attempt that drew the 404 on the primary
\* endpoint when the call switched endpoints before the budget was used up.
C6_ExhaustsAfterMaxRetriesCounted ==
    /\ spc # "idle" /\ BudgetUsedUp =>
          /\ spc = "returned" /\ searchOut = Returned(<<>>)
          /\ Len(postLog) = max_retries + Switches(postLog)
          /\ Switches(postLog) <= 1
          /\ RetryableFailure(Last(postLog).outcome)
    /\ spc = "loop" /\ max_retries >= 1 => CountedFailures(postLog) < max_retries

\* three connection errors with max_retries = 3
C6_Witness ==
    /\ spc = "returned"
    /\ max_retries = 3
    /\ Len(postLog) = 3
    /\ \A i \in 1..3 : postLog[i].outcome.kind = "ConnectionError"
    /\ searchOut = Returned(<<>>)

\* the step is a network attempt that draws a 404 on the primary endpoint
SwitchStep == Len(postLog') = Len(postLog) + 1 /\ Switch(Last(postLog'))

C7_Safety ==
    /\ \A i \in 1..Len(postLog) : Switch(postLog[i]) =>
          /\ \A j \in (i + 1)..Len(postLog) : postLog[j].endpoint = "fallback"
          /\ endpoint = "fallback"
    /\ \A i \in 1..Len(postLog) : postLog[i].endpoint = "fallback" =>
          \E j \in 1..(i - 1) : Switch(postLog[j])

C7_Step ==
    SwitchStep =>
        /\ attempt' = attempt
        /\ searchSleeps' = searchSleeps
        /\ endpoint' = "fallback"
        /\ spc' = "loop"
        /\ attempt' < max_retries'

\* C7: a 404 on the primary endpoint leaves the attempt counter as it is, causes no
\* sleep and keeps the call going; the next network attempt and every later one of
\* the call target the fallback endpoint.
C7_FallbackOn404 == [](C7_Safety) /\ [][C7_Step]_vars

\* the switch happens after one counted failure; two more attempts follow it
C7_Witness ==
    /\ Len(postLog) = 4
    /\ postLog[1].outcome.kind = "Timeout"
    /\ Switch(postLog[2])
    /\ postLog[3].endpoint = "fallback" /\ Is5xx(postLog[3].outcome)
    /\ postLog[4].endpoint = "fallback"
    /\ attempt = 2
    /\ Len(searchSleeps) = 2

\* an HTTP error that is neither a 5xx nor the 404 that switches endpoints
FatalHttp(e) == e.outcome.kind = "HTTPError" /\ ~Is5xx(e.outcome) /\ ~Switch(e)

\* C8: an HTTP error whose status is not in [500,600) and that is not a 404 on the
\* primary endpoint (a 404 on the fallback endpoint, another 4xx, no status at all)
\* is raised on the attempt where it occurs: it is the last attempt, no sleep
\* follows it and the call returns nothing.
C8_OtherHttpErrorRaises ==
    \A i \in 1..Len(postLog) : FatalHttp(postLog[i]) =>
        /\ i = Len(postLog)
        /\ spc = "raised"
        /\ searchOut = Raised("HTTPError")
        /\ Len(searchSleeps) = CountedFailures(postLog)

\* a 404 on the fallback endpoint, after the switch and a backed-off retry
C8_Witness ==
    /\ spc = "raised"
    /\ Len(postLog) = 3
    /\ Switch(postLog[1])
    /\ Is5xx(postLog[2].outcome)
    /\ Is404(postLog[3].outcome) /\ postLog[3].endpoint = "fallback"
    /\ Len(searchSleeps) = 1

\* C9: search with max_retries = 0 makes no network call and returns [].
C9_ZeroRetriesNoPost ==
    spc # "idle" /\ max_retries = 0 =>
        /\ postLog = <<>>
        /\ spc \in {"loop", "returned"}
        /\ spc = "returned" => searchOut = Returned(<<>>)
        /\ spc = "loop" => ~RetryGuard /\ attempt = 0

C9_Witness ==
    /\ HasKey
    /\ spc = "returned"
    /\ max_retries = 0
    /\ searchOut = Returned(<<>>)
    /\ postLog = <<>>

\* C10: without a credential search returns [] at once and makes no network call,
\* whatever max_retries is.
C10_NoKeyNoPost ==
    ~HasKey =>
        /\ postLog = <<>>
        /\ searchSleeps = <<>>
        /\ spc \in {"idle", "returned"}
        /\ spc = "returned" => searchOut = Returned(<<>>)

C10_Witness ==
    /\ PARALLEL_AI_API_KEY = ""
    /\ spc = "returned"
    /\ max_retries = 3
    /\ searchOut = Returned(<<>>)

-----------------------------------------------------------------------------
(* C11 *)

NormalizeReturned == call.fn = "normalize" /\ ret.kind = "return"

\* no key that can supply the field carries a non-empty value
LacksTitle(r) == ~Truthy(r.title)
LacksLink(r) == ~Truthy(r.url) /\ ~Truthy(r.link) /\ ~Truthy(r.sourceURL)
LacksSnippet(r) ==
    IF r.excerpts.tag = "list" THEN r.excerpts.l = <<>>
    ELSE ~Truthy(r.snippet) /\ ~Truthy(r.description)

\* C11: every record search returns has title, snippet and link, none of them
\* null, absent or empty, and a field the upstream result lacks or carries
\* empty (an empty excerpts list included) is the literal "N/A"
C11_FieldsPopulated ==
    NormalizeReturned =>
        /\ Len(ret.value) = Len(call.results)
        /\ \A i \in 1..Len(ret.value) :
              LET rec == ret.value[i]
                  r == call.results[i]
              IN  /\ DOMAIN rec = {"title", "snippet", "link"}
                  /\ Truthy(rec.title) /\ Truthy(rec.snippet) /\ Truthy(rec.link)
                  /\ LacksTitle(r) => rec.title = NA
                  /\ LacksSnippet(r) => rec.snippet = NA
                  /\ LacksLink(r) => rec.link = NA

\* a result with null title, no link key and an empty excerpts list was normalised
C11_Witness ==
    /\ NormalizeReturned
    /\ Len(call.results) = 1
    /\ call.results[1].title = Null
    /\ LacksLink(call.results[1])
    /\ call.results[1].excerpts = List(<<>>)
    /\ ret.value[1] = [title |-> NA, snippet |-> NA, link |-> NA]

-----------------------------------------------------------------------------
(* C12 *)

IsTopicList(v) == v.tag = "list"
IsCategoryMap(v) == v.tag = "dict" /\ \A k \in DOMAIN v.d : IsTopicList(v.d[k])

\* a document of one of the accepted shapes: {topics: {band: category map}},
\* or flat {band: list or category map}; bands may be missing
WellFormedMap(v) ==
    /\ v.tag = "dict"
    /\ IF Has(v, "topics")
       THEN /\ v.d["topics"].tag = "dict"
            /\ \A b \in DOMAIN v.d["topics"].d : IsCategoryMap(v.d["topics"].d[b])
       ELSE \A b \in DOMAIN v.d : IsTopicList(v.d[b]) \/ IsCategoryMap(v.d[b])

WellFormedText(text) ==
    /\ text.form = "json" \/ (text.form = "fenced" /\ text.value.tag = "dict")
    /\ WellFormedMap(text.value)

GenerateEnded == call.fn = "generate_domain_map" /\ Ended

\* the band holds a non-empty list under the category
BandFilled(m, band, category) ==
    /\ Has(m.d["topics"], band)
    /\ m.d["topics"].d[band].tag = "dict"
    /\ Has(m.d["topics"].d[band], category)
    /\ IsTopicList(m.d["topics"].d[band].d[category])
    /\ m.d["topics"].d[band].d[category].items # <<>>

\* C12: for a well-formed domain-map output of the job and a non-empty topic
\* list, generate_domain_map returns a map whose Core, Adjacent and Peripheral
\* each hold a non-empty list for the requested category
C12_EveryBandFilled ==
    (GenerateEnded /\ WellFormedText(call.text) /\ call.topics # <<>>) =>
        /\ ret.kind = "return"
        /\ \A b \in BandNames : BandFilled(ret.value, b, call.category)

\* a flat answer with only Core filled came back with the other two bands
\* filled from the second and third source topics
C12_Witness ==
    /\ GenerateEnded
    /\ call.text = JsonText(JDict([b \in {"Core"} |-> JList(<<"x">>)]))
    /\ call.topics = <<"t1", "t2", "t3">>
    /\ ret.kind = "return"
    /\ ret.value.d["topics"].d["Core"].d[call.category] = JList(<<"x">>)
    /\ ret.value.d["topics"].d["Adjacent"].d[call.category] = JList(<<"t2">>)
    /\ ret.value.d["topics"].d["Peripheral"].d[call.category] = JList(<<"t3">>)

-----------------------------------------------------------------------------
(* C13 *)

NormalizeMapEnded == call.fn = "_normalize_domain_map" /\ Ended

\* already canonical: an object whose "topics" is an object
IsCanonical(v) == v.tag = "dict" /\ Has(v, "topics") /\ v.d["topics"].tag = "dict"

\* C13: _normalize_domain_map returns an already-canonical map unchanged, and
\* for every input normalising the result again gives the same result
C13_IdentityAndIdempotent ==
    NormalizeMapEnded =>
        /\ ret.kind = "return"
        /\ IsCanonical(call.raw) => ret.value = call.raw
        /\ _normalize_domain_map(ret.value, call.category) = ret.value

\* a canonical map with a Core band came back as it was
C13_Witness ==
    /\ NormalizeMapEnded
    /\ IsCanonical(call.raw)
    /\ Has(call.raw.d["topics"], "Core")
    /\ ret.value = call.raw

-----------------------------------------------------------------------------
(* C14 *)

\* C14: whatever text the job returned (JSON of any shape, fenced JSON, prose,
\* an error sentinel) and whatever the topic list, generate_domain_map ends by
\* returning a domain map, never by raising
C14_NeverRaises ==
    GenerateEnded =>
        /\ ret.kind = "return"
        /\ ret.value.tag = "dict" /\ Has(ret.value, "topics")

-----------------------------------------------------------------------------
(* C15 *)

\* the band holds exactly one entry, under the category, and it is a list
BandCanonical(m, band, category) ==
    /\ Has(m.d["topics"], band)
    /\ m.d["topics"].d[band].tag = "dict"
    /\ DOMAIN m.d["topics"].d[band].d = {category}
    /\ IsTopicList(m.d["topics"].d[band].d[category])

\* C15: the map generate_domain_map returns has topics.Core, topics.Adjacent
\* and topics.Peripheral, each with exactly one entry, keyed by the requested
\* category and holding a list, for every answer shape and every topic list,
\* the empty one included
C15_ThreeBandsOneEntry ==
    (GenerateEnded /\ ret.kind = "return") =>
        /\ IsCanonical(ret.value)
        /\ \A b \in BandNames : BandCanonical(ret.value, b, call.category)

-----------------------------------------------------------------------------
(* C16 *)

ParseEnded == call.fn = "parse_research" /\ Ended
RecordKeys == {"topics", "entities", "concepts"}

\* C16: the record parse_research returns contains topics, entities and
\* concepts for every text the job can return, a JSON object that omits some
\* of them (such as {}) included
C16_AllThreeKeys ==
    ParseEnded => (ret.kind = "return" /\ RecordKeys \subseteq DOMAIN ret.value.d)

-----------------------------------------------------------------------------
(* C17 *)

\* the answer is no JSON object: not JSON, an unparsable fenced block, a JSON
\* value of another type (plain or fenced), or the empty string
Malformed(text) ==
    \/ text.form \in {"prose", "sentinel", "fenced_bad", "empty"}
    \/ text.form \in {"json", "fenced"} /\ text.value.tag # "dict"

\* C17: for a malformed or empty answer parse_research does not raise and
\* returns a record with exactly the keys topics, entities and concepts
C17_MalformedGivesThreeKeys ==
    (ParseEnded /\ Malformed(call.text)) =>
        /\ ret.kind = "return"
        /\ ret.value.tag = "dict"
        /\ DOMAIN ret.value.d = RecordKeys
        /\ \A k \in RecordKeys : ret.value.d[k].tag = "list"

\* prose came back for a report with a heading: three keys, topics backfilled
C17_Witness ==
    /\ ParseEnded
    /\ call.text.form = "prose"
    /\ call.dr_text = <<<<"#", " ", "A", "l", "p", "h", "a">>>>
    /\ ret.value.d["topics"] = JList(<<<<"A", "l", "p", "h", "a">>>>)
    /\ ret.value.d["entities"] = EmptyList
    /\ ret.value.d["concepts"] = EmptyList

-----------------------------------------------------------------------------
(* C18 *)

HeuristicEnded == call.fn = "_heuristic_topics" /\ Ended

\* the first line of the text that is a heading cleaning to t, up to case
FirstHeading(text, t) ==
    CHOOSE i \in 1..Len(text) :
        /\ HEADING_PATTERN(Strip(text[i]))
        /\ Lower(Cleaned(Strip(text[i]))) = Lower(t)
        /\ \A j \in 1..(i - 1) :
              ~(HEADING_PATTERN(Strip(text[j])) /\ Lower(Cleaned(Strip(text[j]))) = Lower(t))

IsHeadingOf(text, t) ==
    \E i \in 1..Len(text) :
        HEADING_PATTERN(Strip(text[i])) /\ Lower(Cleaned(Strip(text[i]))) = Lower(t)

\* C18: for any text and any cap _heuristic_topics returns at most cap
\* topics (none for a cap below one), no two equal ignoring case, in order of first appearance, none of
\* them introduction, conclusion or executive summary (ignoring case), each
\* 3 to 120 characters long
C18_CappedDistinctOrdered ==
    HeuristicEnded =>
        LET topics == ret.value
        IN  /\ ret.kind = "return"
            /\ Len(topics) <= (IF call.max_topics < 0 THEN 0 ELSE call.max_topics)
            /\ \A j, k \in 1..Len(topics) : j # k => Lower(topics[j]) # Lower(topics[k])
            /\ \A j \in 1..Len(topics) :
                  /\ IsHeadingOf(call.dr_text, topics[j])
                  /\ topics[j] = Cleaned(Strip(call.dr_text[FirstHeading(call.dr_text, topics[j])]))
                  /\ Lower(topics[j]) \notin StopList
                  /\ MinTopicLen <= Len(topics[j]) /\ Len(topics[j]) <= MaxTopicLen
            /\ \A j, k \in 1..Len(topics) :
                  j < k => FirstHeading(call.dr_text, topics[j])
                               < FirstHeading(call.dr_text, topics[k])

-----------------------------------------------------------------------------
(* C19 *)

ScoreEnded == call.fn = "score_scenarios" /\ Ended

\* C19: called with an empty scenario list, score_scenarios returns the empty
\* list and makes no call to the generative service
C19_EmptyListNoJob ==
    (ScoreEnded /\ call.scenarios = <<>>) => (ret = Returned(<<>>) /\ jobs = 0)

\* an empty list was scored while the job would have answered with scores
C19_Witness ==
    /\ ScoreEnded
    /\ call.scenarios = <<>>
    /\ call.text = JsonText(JList(<<FallbackLike>>))
    /\ ret = Returned(<<>>)
    /\ jobs = 0

-----------------------------------------------------------------------------
(* C20 *)

\* the items the job sent, when they reach the final loop as they are
UpstreamItems == LoadArray(call.text).items
ItemsKept ==
    /\ ScoreEnded /\ call.scenarios # <<>> /\ ret.kind = "return"
    /\ LoadArray(call.text).tag = "list" /\ LoadArray(call.text).items # <<>>

\* v is x rounded to 2 decimals: a hundredth at most half a hundredth from x
\* (v in thousandths, x in hundred-thousandths)
IsRounded(v, x) ==
    /\ v % 10 = 0
    /\ 2 * (v * 100 - x) <= Milli /\ 2 * (x - v * 100) <= Milli

\* C20: an upstream item without overall_score gets impact*0.30 +
\* plausibility*0.25 + novelty*0.20 + clarity*0.15 + uncertainty_coverage*0.10
\* rounded to 2 decimals, an absent dimension counting as 0 (dimensions that
\* are present are numbers); an item with overall_score keeps its value
C20_OverallScoreFormula ==
    ItemsKept =>
        /\ Len(ret.value) = Len(UpstreamItems)
        /\ \A i \in 1..Len(UpstreamItems) :
              LET item == UpstreamItems[i]
                  out == ret.value[i]
              IN  IF Has(item, "overall_score")
                  THEN out = item
                  ELSE Computable(item) =>
                         /\ out.d["overall_score"].tag = "num"
                         /\ IsRounded(out.d["overall_score"].n,
                                      30 * DictGet(item, "impact", JNum(0)).n
                                      + 25 * DictGet(item, "plausibility", JNum(0)).n
                                      + 20 * DictGet(item, "novelty", JNum(0)).n
                                      + 15 * DictGet(item, "clarity", JNum(0)).n
                                      + 10 * DictGet(item, "uncertainty_coverage", JNum(0)).n)
                         /\ \A k \in DOMAIN item.d : out.d[k] = item.d[k]

\* an item with impact 5, clarity 2.5 and nothing else got 1.88 (1.875 rounded)
C20_Witness ==
    /\ ItemsKept
    /\ Len(UpstreamItems) = 1
    /\ DOMAIN UpstreamItems[1].d = {"impact", "clarity"}
    /\ UpstreamItems[1].d["impact"] = JNum(5 * Milli)
    /\ UpstreamItems[1].d["clarity"] = JNum(2500)
    /\ ret.value[1].d["overall_score"] = JNum(1880)

-----------------------------------------------------------------------------
(* C21 *)

ScoreReturned == ScoreEnded /\ call.scenarios # <<>> /\ ret.kind = "return"

\* the heuristic fallback produced the list
FallbackUsed ==
    LoadArray(call.text).tag # "list" \/ LoadArray(call.text).items = <<>>

\* item i of the returned list got its overall_score from score_scenarios
ScoredLocally(i) == FallbackUsed \/ ~Has(UpstreamItems[i], "overall_score")

\* the dimensions are impact 3, plausibility 3, novelty 3, clarity 3 and
\* uncertainty_coverage 2
HasFallbackDimensions(item) ==
    \A k \in DimensionNames :
        /\ Has(item, k)
        /\ item.d[k] = JNum((IF k = "uncertainty_coverage" THEN 2 ELSE 3) * Milli)

\* C21 as stated: for the dimensions 3, 3, 3, 3, 2 the overall_score that
\* score_scenarios produces is 3.0
C21_OverallIsThree ==
    ScoreReturned =>
        \A i \in 1..Len(ret.value) :
            (ScoredLocally(i) /\ HasFallbackDimensions(ret.value[i])) =>
                ret.value[i].d["overall_score"] = JNum(3 * Milli)

\* C21 amended: for the dimensions 3, 3, 3, 3, 2, from the heuristic fallback
\* or from an upstream item without overall_score, the overall_score that
\* score_scenarios produces is 2.9 (0.9 + 0.75 + 0.6 + 0.45 + 0.2)
C21_OverallIsTwoPointNine ==
    ScoreReturned =>
        \A i \in 1..Len(ret.value) :
            (ScoredLocally(i) /\ HasFallbackDimensions(ret.value[i])) =>
                ret.value[i].d["overall_score"] = JNum(2900)

\* two scenarios were scored by the fallback after a prose answer
C21_Witness ==
    /\ ScoreReturned
    /\ call.text.form = "prose"
    /\ Len(call.scenarios) = 2
    /\ Len(ret.value) = 2
    /\ HasFallbackDimensions(ret.value[2])
    /\ ret.value[2].d["overall_score"] = JNum(2900)

-----------------------------------------------------------------------------
(* C22 *)

\* C22: for a non-empty scenario list score_scenarios does not raise, whatever
\* the scoring job's text holds (array of objects, array of numbers or
\* strings, objects with non-numeric dimensions, an object, fenced JSON,
\* prose, an error sentinel), and every returned item carries overall_score
C22_NeverRaisesAlwaysScored ==
    (ScoreEnded /\ call.scenarios # <<>>) =>
        /\ ret.kind = "return"
        /\ \A i \in 1..Len(ret.value) :
              ret.value[i].tag = "dict" /\ Has(ret.value[i], "overall_score")

-----------------------------------------------------------------------------
(* C23 *)

\* a whole number of units from 1 to 5
IsScore(v) == v.tag = "num" /\ v.n \in {n * Milli : n \in 1..5}

\* C23: when the scoring job's text yields no non-empty JSON array
\* (unparseable text, a JSON value that is no list, an empty array, an error
\* sentinel), score_scenarios returns one score per input scenario, in input
\* order, each with the scenario's title, five dimension scores that are
\* integers in 1..5 and the explanation naming the heuristic fallback
C23_FallbackOnePerScenario ==
    (ScoreEnded /\ call.scenarios # <<>> /\ FallbackUsed) =>
        /\ ret.kind = "return"
        /\ Len(ret.value) = Len(call.scenarios)
        /\ \A i \in 1..Len(ret.value) :
              /\ ret.value[i].tag = "dict"
              /\ DictGet(ret.value[i], "title", JNull) = JStr(call.scenarios[i].title)
              /\ \A k \in DimensionNames : IsScore(DictGet(ret.value[i], k, JNull))
              /\ DictGet(ret.value[i], "explanation", JNull) = FallbackExplanation

\* an error sentinel came back for two scenarios; both were scored in order
C23_Witness ==
    /\ ScoreEnded
    /\ call.text.form = "sentinel"
    /\ Len(call.scenarios) = 2
    /\ ret.kind = "return"
    /\ Len(ret.value) = 2
    /\ ret.value[1].d["title"] = JStr("S1")
    /\ ret.value[2].d["title"] = JStr("S2")
    /\ ret.value[2].d["explanation"] = FallbackExplanation

-----------------------------------------------------------------------------
(* C29 *)

\* a completed status object has been turned into the call's result
ExtractedFromCompleted ==
    /\ lpc = "returned" /\ CompletesInBudget
    /\ status_response.status = "completed"

\* the text segments of the items of one type set, in output order: the str
\* texts of the listed parts whose type is among partTypes
RECURSIVE SegmentsFrom(_, _, _)
SegmentsFrom(output, itemTypes, partTypes) ==
    IF output = <<>> THEN <<>>
    ELSE LET item == Head(output)
             kept == IF item.type \in itemTypes /\ item.hasList
                     THEN SelectSeq(item.content,
                                    LAMBDA p : p.type \in partTypes /\ p.text.isStr)
                     ELSE <<>>
         IN  [k \in 1..Len(kept) |-> kept[k].text.s]
             \o SegmentsFrom(Tail(output), itemTypes, partTypes)

RECURSIVE SummariesFrom(_)
SummariesFrom(output) ==
    IF output = <<>> THEN <<>>
    ELSE LET item == Head(output)
             kept == IF item.type = "reasoning" /\ item.hasList
                     THEN SelectSeq(item.summary, LAMBDA x : x.text.isStr)
                     ELSE <<>>
         IN  [k \in 1..Len(kept) |-> kept[k].text.s] \o SummariesFrom(Tail(output))

\* segments of message blocks only, and of message blocks and direct text blocks
MessageBlockSegments(output) == SegmentsFrom(output, {"message"}, {"output_text", "text"})
FirstPassSegments(output) ==
    LET AllParts == {"output_text", "text", "refusal"}
        direct == {"text", "output_text"}
    IN  IF output = <<>> THEN <<>>
        ELSE Flatten([i \in 1..Len(output) |->
                 IF output[i].type = "message"
                 THEN SegmentsFrom(<<output[i]>>, {"message"}, {"output_text", "text"})
                 ELSE SegmentsFrom(<<output[i]>>, direct, AllParts)])

BlankLine == <<"\n", "\n">>

-----------------------------------------------------------------------------
(* C30 *)

\* the map as normalization leaves it, before the fallback loop
NormalizedMap == _normalize_domain_map(LoadObject(call.text), call.category)

\* the band's list for the category is empty: the band or the category is
\* missing, or the list has no entry
BandListEmpty(m, band, category) ==
    \/ ~Has(m.d["topics"], band)
    \/ /\ m.d["topics"].d[band].tag = "dict"
       /\ \/ ~Has(m.d["topics"].d[band], category)
          \/ m.d["topics"].d[band].d[category] = EmptyList

BandListNonEmpty(m, band, category) ==
    /\ Has(m.d["topics"], band)
    /\ m.d["topics"].d[band].tag = "dict"
    /\ Has(m.d["topics"].d[band], category)
    /\ IsTopicList(m.d["topics"].d[band].d[category])
    /\ m.d["topics"].d[band].d[category].items # <<>>

\* band i (from 0) of the returned map holds exactly the one topic
\* source_topics[i mod len] under the category, its other entries as before
InjectedOne(i) ==
    LET band == Bands[i + 1]
        before == NormalizedMap.d["topics"]
        after == ret.value.d["topics"]
        pick == call.topics[(i % Len(call.topics)) + 1]
    IN  /\ Has(after, band) /\ after.d[band].tag = "dict"
        /\ Has(after.d[band], call.category)
        /\ after.d[band].d[call.category] = JList(<<pick>>)
        /\ Has(before, band) =>
               \A k \in DOMAIN before.d[band].d \ {call.category} :
                   Has(after.d[band], k) /\ after.d[band].d[k] = before.d[band].d[k]

LeftAsNormalized(i) ==
    LET band == Bands[i + 1]
    IN  /\ Has(ret.value.d["topics"], band)
        /\ ret.value.d["topics"].d[band] = NormalizedMap.d["topics"].d[band]

InjectionAsClaimed ==
    IF call.topics = <<>> THEN ret.value = NormalizedMap
    ELSE \A i \in 0..(Len(Bands) - 1) :
            /\ BandListEmpty(NormalizedMap, Bands[i + 1], call.category) => InjectedOne(i)
            /\ BandListNonEmpty(NormalizedMap, Bands[i + 1], call.category) => LeftAsNormalized(i)

\* C30: with a non-empty source topic list every band whose list for the
\* category is empty after normalization receives exactly the one topic
\* source_topics[band_index mod len(source_topics)] and every band whose list
\* is non-empty is left as normalized; with an empty source topic list nothing
\* is injected
C30_OneTopicPerEmptyBand ==
    GenerateEnded => ret.kind = "return" /\ InjectionAsClaimed

\* the calls that return inject as C30 says
InjectsWhenReturned ==
    (GenerateEnded /\ ret.kind = "return") => InjectionAsClaimed

\* a band with an empty list follows a band the loop cannot read
C30_RaisesBeforeInjecting ==
    /\ GenerateEnded /\ call.topics # <<>>
    /\ \E i \in 1..(Len(Bands) - 1) :
          /\ Has(NormalizedMap.d["topics"], Bands[i])
          /\ NormalizedMap.d["topics"].d[Bands[i]].tag # "dict"
          /\ BandListEmpty(NormalizedMap, Bands[i + 1], call.category)
    /\ ret = Raised("AttributeError")

-----------------------------------------------------------------------------
(* agents/base_agent.py: STEEPV_Agent. A search result is an object of str
   fields; what search does for the n-th topic asked is the n-th entry of a
   script: a list of results, or an exception *)

\* the signal built from one result of the search for topic
SignalOf(result, topic) ==
    [title |-> DictGet(result, "title", JStr("N/A")),
     description |-> DictGet(result, "snippet", JStr("N/A")),
     relevance |-> <<"This is relevant to ", topic>>,
     sourceURL |-> DictGet(result, "link", JStr("N/A"))]

SignalsOf(results, topic) == [k \in 1..Len(results) |-> SignalOf(results[k], topic)]

\* domain_map.get("topics", {}).get(band, {}).get(category, [])
BandTopics(domain_map, band, category) ==
    IF domain_map.tag # "dict" THEN Raised("AttributeError")
    ELSE LET t == DictGet(domain_map, "topics", EmptyDict)
         IN  IF t.tag # "dict" THEN Raised("AttributeError")
             ELSE LET b == DictGet(t, band, EmptyDict)
                  IN  IF b.tag # "dict" THEN Raised("AttributeError")
                      ELSE Returned(DictGet(b, category, EmptyList))

\* faulty variant: the Adjacent list comes first
TopicsToScanAdjacentFirst(domain_map, category) ==
    LET p == BandTopics(domain_map, "Peripheral", category)
        a == BandTopics(domain_map, "Adjacent", category)
    IN  IF p.kind = "raise" THEN p
        ELSE IF a.kind = "raise" THEN a
        ELSE IF p.value.tag = "list" /\ a.value.tag = "list"
        THEN Returned(a.value.items \o p.value.items)
        ELSE Raised("TypeError")

\* the Peripheral list followed by the Adjacent list (two str values, which
\* Python would concatenate, are not among the maps considered)
TopicsToScan(domain_map, category) ==
    LET p == BandTopics(domain_map, "Peripheral", category)
        a == BandTopics(domain_map, "Adjacent", category)
    IN  IF p.kind = "raise" THEN p
        ELSE IF a.kind = "raise" THEN a
        ELSE IF p.value.tag = "list" /\ a.value.tag = "list"
        THEN Returned(p.value.items \o a.value.items)
        ELSE Raised("TypeError")

\* faulty variant: the first failed search ends the loop
RECURSIVE ScanLoopStopsAtError(_, _, _, _, _)
ScanLoopStopsAtError(topics, i, script, signals, log) ==
    IF i > Len(topics) THEN [signals |-> signals, searches |-> log]
    ELSE IF script[i].kind = "raise"
    THEN [signals |-> signals, searches |-> Append(log, topics[i])]
    ELSE ScanLoopStopsAtError(topics, i + 1, script,
                  signals \o SignalsOf(script[i].value, topics[i]),
                  Append(log, topics[i]))

\* the loop over topics_to_scan from entry i on: any Exception of search is
\* logged and the loop goes on with the next topic
RECURSIVE ScanLoop(_, _, _, _, _)
ScanLoop(topics, i, script, signals, log) ==
    IF i > Len(topics) THEN [signals |-> signals, searches |-> log]
    ELSE IF script[i].kind = "raise"
    THEN ScanLoop(topics, i + 1, script, signals, Append(log, topics[i]))
    ELSE ScanLoop(topics, i + 1, script,
                  signals \o SignalsOf(script[i].value, topics[i]),
                  Append(log, topics[i]))

\* faulty variant: the exception of a failed search leaves scan_for_signals
scan_for_signals_propagates(domain_map, category, script) ==
    IF ~JTruthy(domain_map) THEN [out |-> Returned(<<>>), searches |-> <<>>]
    ELSE LET topics == TopicsToScan(domain_map, category)
         IN  IF topics.kind = "raise" THEN [out |-> topics, searches |-> <<>>]
             ELSE LET done == ScanLoopStopsAtError(topics.value, 1, script, <<>>, <<>>)
                      last == Len(done.searches)
                  IN  [out |-> IF last > 0 /\ script[last].kind = "raise"
                               THEN script[last] ELSE Returned(done.signals),
                       searches |-> done.searches]

\* how scan_for_signals ends and which searches it has made
scan_for_signals(domain_map, category, script) ==
    IF ~JTruthy(domain_map) THEN [out |-> Returned(<<>>), searches |-> <<>>]
    ELSE LET topics == TopicsToScan(domain_map, category)
         IN  IF topics.kind = "raise" THEN [out |-> topics, searches |-> <<>>]
             ELSE LET done == ScanLoop(topics.value, 1, script, <<>>, <<>>)
                  IN  [out |-> Returned(done.signals), searches |-> done.searches]

\* STEEPV_Agent.generate_domain_map: self.domain_map afterwards (None at
\* construction), whether a job was run, and the error raised if any
AgentDomainMap(topics, category, text) ==
    IF topics = <<>> THEN [out |-> Returned(JNull), jobs |-> 0]
    ELSE [out |-> DomainMapOutcome(text, topics, category), jobs |-> 1]

MaxBandTopics == 2
ScanTopicNames == <<"t1", "t2", "t3", "t4">>
FullResult == JDict([k \in {"title", "link", "snippet"} |-> JStr(k)])
BareResult == JDict([k \in {"title"} |-> JStr("only")])
SearchOutcomes ==
    {Returned(<<>>), Returned(<<FullResult, BareResult>>),
     Raised("Exception"), Raised("HTTPError")}
\* scripts for n searches; the entries past n are never read
SearchScripts(n) ==
    {s \in [1..(2 * MaxBandTopics) -> SearchOutcomes] :
        \A i \in (n + 1)..(2 * MaxBandTopics) : s[i] = Returned(<<>>)}

BandOf(category, list) == JDict([c \in {category} |-> list])
TopicsOf(bands) == JDict([t \in {"topics"} |-> bands])
\* maps whose Peripheral and Adjacent lists share a topic
ScanMaps(category) ==
    {TopicsOf(JDict([b \in BandNames |->
        CASE b = "Peripheral" -> BandOf(category, JList(SubSeq(ScanTopicNames, 1, n)))
          [] b = "Adjacent" -> BandOf(category, JList(SubSeq(ScanTopicNames, 2, m + 1)))
          [] OTHER -> BandOf(category, EmptyList)])) :
        n \in 0..MaxBandTopics, m \in 0..MaxBandTopics}
OddMaps(category) ==
    {JNull, EmptyDict, TopicsOf(EmptyDict),
     TopicsOf(JDict([b \in {"Adjacent"} |-> BandOf(category, JList(<<"t1">>))])),
     TopicsOf(JDict([b \in {"Peripheral"} |-> JList(<<"t1">>)])),
     TopicsOf(JDict([b \in {"Peripheral"} |-> BandOf(category, JStr("s"))]))}
AgentMaps(category) == ScanMaps(category) \cup OddMaps(category)

ScanLength(domain_map, category) ==
    IF JTruthy(domain_map) /\ TopicsToScan(domain_map, category).kind = "return"
    THEN Len(TopicsToScan(domain_map, category).value)
    ELSE 0

STEEPV_Agent_generate_domain_map ==
    /\ call.fn = "STEEPV_Agent.generate_domain_map" /\ ~Ended
    /\ LET r == AgentDomainMap(call.topics, call.category, call.text)
       IN  ret' = r.out /\ jobs' = jobs + r.jobs
    /\ UNCHANGED <<llmVars, PARALLEL_AI_API_KEY, searchVars, scanVars, call>>

STEEPV_Agent_scan_for_signals ==
    /\ call.fn = "STEEPV_Agent.scan_for_signals" /\ ~Ended
    /\ LET r == scan_for_signals(call.domain_map, call.category, call.script)
       IN  ret' = r.out /\ searches' = r.searches
    /\ UNCHANGED <<llmVars, PARALLEL_AI_API_KEY, searchVars, call, jobs, scan, files>>

\* scan_for_signals on the agent whose generate_domain_map has returned: it
\* reads the map that call stored in self.domain_map; every search of the
\* scan ends the same way
STEEPV_Agent_scan_own_map ==
    /\ call.fn = "STEEPV_Agent.generate_domain_map" /\ Ended
    /\ ret.kind = "return"
    /\ scan = NoScan
    /\ \E o \in SearchOutcomes :
          LET r == scan_for_signals(ret.value, call.category,
                       [i \in 1..ScanLength(ret.value, call.category) |-> o])
          IN  /\ searches' = r.searches
              /\ scan' = [pc |-> "scanned", out |-> r.out]
    /\ UNCHANGED <<llmVars, PARALLEL_AI_API_KEY, searchVars, call, ret, jobs, files>>

InitAgent ==
    /\ Quiet
    /\ call \in {[fn |-> "STEEPV_Agent.scan_for_signals", domain_map |-> m,
                   category |-> c, script |-> s] :
                     c \in Categories,
                     m \in AgentMaps("Social"),
                     s \in SearchScripts(2 * MaxBandTopics)}
               \cup {[fn |-> "STEEPV_Agent.generate_domain_map", topics |-> ts,
                       category |-> c, text |-> x] :
                         ts \in TopicLists, c \in Categories,
                         x \in {JsonText(v) : v \in FencedDocs} \cup OtherTexts}
    /\ call.fn = "STEEPV_Agent.scan_for_signals" =>
           call.script \in SearchScripts(ScanLength(call.domain_map, call.category))
    /\ ret = NoOutcome
    /\ jobs = 0
    /\ Unscanned

NextAgent ==
    \/ STEEPV_Agent_generate_domain_map
    \/ STEEPV_Agent_scan_for_signals
    \/ STEEPV_Agent_scan_own_map

SpecAgent == InitAgent /\ [][NextAgent]_vars

-----------------------------------------------------------------------------
(* C26 *)

ScanSignalsEnded == call.fn = "STEEPV_Agent.scan_for_signals" /\ Ended

\* the scan list of the call, when the domain map yields one
ScanList == TopicsToScan(call.domain_map, call.category).value
HasScanList ==
    /\ JTruthy(call.domain_map)
    /\ TopicsToScan(call.domain_map, call.category).kind = "return"

SearchRaisedAt(i) == call.script[i].kind = "raise"

\* the signals of the entries i.. of the scan list whose search returned
RECURSIVE SignalsFromReturned(_)
SignalsFromReturned(i) ==
    IF i > Len(ScanList) THEN <<>>
    ELSE (IF SearchRaisedAt(i) THEN <<>>
          ELSE [k \in 1..Len(call.script[i].value) |->
                   [title |-> DictGet(call.script[i].value[k], "title", JStr("N/A")),
                    description |-> DictGet(call.script[i].value[k], "snippet", JStr("N/A")),
                    relevance |-> <<"This is relevant to ", ScanList[i]>>,
                    sourceURL |-> DictGet(call.script[i].value[k], "link", JStr("N/A"))]])
         \o SignalsFromReturned(i + 1)

\* C26: when search raises for a topic of the scan list, scan_for_signals
\* still returns: every entry of the scan list has been searched exactly once,
\* in order, and the value is the signals of the topics whose search returned,
\* none coming from a topic whose search raised
C26_FailedSearchSkipsOneTopic ==
    (ScanSignalsEnded /\ HasScanList /\ \E i \in 1..Len(ScanList) : SearchRaisedAt(i)) =>
        /\ ret.kind = "return"
        /\ searches = ScanList
        /\ ret.value = SignalsFromReturned(1)

\* the first search raised, the later ones returned results, and the signals
\* of the later topics came back
C26_Witness ==
    /\ ScanSignalsEnded /\ HasScanList
    /\ Len(ScanList) = 3
    /\ SearchRaisedAt(1) /\ ~SearchRaisedAt(2) /\ ~SearchRaisedAt(3)
    /\ call.script[2].value # <<>>
    /\ ret.kind = "return"
    /\ Len(ret.value) = Len(call.script[2].value) + Len(call.script[3].value)
    /\ ret.value[1].relevance = <<"This is relevant to ", ScanList[2]>>
    /\ searches = ScanList

-----------------------------------------------------------------------------
(* scenario_service: extract_scenarios. SCENARIO_HEADING_PATTERN is
   ^#{2,4}\s+Scenario(?:\s+\d+)?[:\-]?\s*(.+)$ without regard to case *)

MinScenarioHashes == 2
MaxScenarioHashes == 4
MaxSectionHashes == 3
ScenarioWord == <<"s", "c", "e", "n", "a", "r", "i", "o">>
Separators == {":", "-"}
UntitledScenario == <<"Untitled Scenario">>

Min(a, b) == IF a <= b THEN a ELSE b

\* what follows "#{2,4}\s+Scenario" in the line, or <<"">> when the line does
\* not start that way
AfterScenarioWord(line) ==
    LET h == Leading(line, {"#"})
        afterHashes == Drop(line, h)
        w == Leading(afterHashes, Whitespace)
        afterSpace == Drop(afterHashes, w)
    IN  IF /\ MinScenarioHashes <= h /\ h <= MaxScenarioHashes
           /\ w >= 1
           /\ Len(afterSpace) >= Len(ScenarioWord)
           /\ Lower(SubSeq(afterSpace, 1, Len(ScenarioWord))) = ScenarioWord
        THEN [found |-> TRUE, rest |-> Drop(afterSpace, Len(ScenarioWord))]
        ELSE [found |-> FALSE, rest |-> <<>>]

\* with p characters of rest taken by the optional number: where group 1
\* starts when [:\-]? and \s* take all they can and still leave it a
\* character, -1 when they cannot
TitleStartAfter(rest, p) ==
    LET n == Len(rest)
    IN  IF p + 1 < n /\ rest[p + 1] \in Separators
        THEN p + 1 + Min(Leading(Drop(rest, p + 1), Whitespace), n - p - 2)
        ELSE IF p < n
        THEN p + Min(Leading(Drop(rest, p), Whitespace), n - p - 1)
        ELSE -1

\* the optional number tries all its digits first, then fewer, then is left out
RECURSIVE TitleStartDigits(_, _, _)
TitleStartDigits(rest, w, k) ==
    IF k = 0 THEN TitleStartAfter(rest, 0)
    ELSE IF TitleStartAfter(rest, w + k) >= 0 THEN TitleStartAfter(rest, w + k)
    ELSE TitleStartDigits(rest, w, k - 1)

TitleStart(rest) ==
    LET w == Leading(rest, Whitespace)
        d == Leading(Drop(rest, w), Digits)
    IN  IF w >= 1 THEN TitleStartDigits(rest, w, d) ELSE TitleStartAfter(rest, 0)

\* SCENARIO_HEADING_PATTERN.match(line): whether it matches and its group 1
SCENARIO_HEADING_PATTERN(line) ==
    LET a == AfterScenarioWord(line)
    IN  IF a.found /\ TitleStart(a.rest) >= 0
        THEN [matched |-> TRUE, group1 |-> Drop(a.rest, TitleStart(a.rest))]
        ELSE [matched |-> FALSE, group1 |-> <<>>]

\* re.match(r"^#{2,3}\s+", line)
SectionHeading(line) ==
    LET h == Leading(line, {"#"})
    IN  /\ MinScenarioHashes <= h /\ h <= MaxSectionHashes
        /\ h < Len(line) /\ line[h + 1] \in Whitespace

\* current, when not None, is a record title, body
NoScenario == [title |-> <<>>, body |-> <<>>, open |-> FALSE]
\* faulty variant: a scenario is kept whatever its body
ClosedKeepsBlank(scenarios, current) ==
    IF current.open
    THEN Append(scenarios, [title |-> current.title, body |-> current.body])
    ELSE scenarios

Closed(scenarios, current) ==
    IF current.open /\ Strip(current.body) # <<>>
    THEN Append(scenarios, [title |-> current.title, body |-> current.body])
    ELSE scenarios

\* the loop over the lines from line i on
RECURSIVE ExtractFrom(_, _, _, _)
ExtractFrom(lines, i, scenarios, current) ==
    IF i > Len(lines) THEN Closed(scenarios, current)
    ELSE LET line == lines[i]
             m == SCENARIO_HEADING_PATTERN(Strip(line))
         IN  IF m.matched
             THEN ExtractFrom(lines, i + 1, Closed(scenarios, current),
                      [title |-> IF Strip(m.group1) # <<>> THEN Strip(m.group1)
                                 ELSE UntitledScenario,
                       body |-> <<>>, open |-> TRUE])
             ELSE IF ~current.open THEN ExtractFrom(lines, i + 1, scenarios, current)
             ELSE IF SectionHeading(line) /\ ~SCENARIO_HEADING_PATTERN(line).matched
             THEN ExtractFrom(lines, i + 1, Closed(scenarios, current), NoScenario)
             ELSE ExtractFrom(lines, i + 1, scenarios,
                      [current EXCEPT !.body = @ \o line \o <<"\n">>])

extract_scenarios(dr_text) == ExtractFrom(dr_text, 1, <<>>, NoScenario)

-----------------------------------------------------------------------------
\* the lines a report is drawn from: scenario headings of level 2 and 4, one
\* of them indented; headings with nothing, a number, or a number and a colon
\* after the word; a section heading, an indented one, a top-level one, the
\* word followed by a space only; a text line and a blank one
ScenarioLines ==
    {<<"#", "#", " ", "S", "c", "e", "n", "a", "r", "i", "o", " ", "A">>,
     <<" ", "#", "#", "#", "#", " ", "s", "c", "e", "n", "a", "r", "i", "o", ":", " ", "b">>,
     <<"#", "#", " ", "S", "c", "e", "n", "a", "r", "i", "o">>,
     <<"#", "#", " ", "S", "c", "e", "n", "a", "r", "i", "o", " ", "1">>,
     <<"#", "#", " ", "S", "c", "e", "n", "a", "r", "i", "o", " ", "1", ":">>,
     <<"#", "#", " ", "S", "c", "e", "n", "a", "r", "i", "o", " ">>,
     <<"#", "#", "#", " ", "R", "i", "s", "k", "s">>,
     <<" ", "#", "#", " ", "A", "s", "i", "d", "e">>,
     <<"#", " ", "T", "o", "p">>,
     <<"t", "e", "x", "t">>,
     <<" ">>}

MaxScenarioLines == 4
ScenarioTexts == UNION {[1..n -> ScenarioLines] : n \in 0..MaxScenarioLines}

ExtractScenarios ==
    /\ call.fn = "extract_scenarios" /\ ~Ended
    /\ ret' = Returned(extract_scenarios(call.dr_text))
    /\ UNCHANGED <<llmVars, PARALLEL_AI_API_KEY, searchVars, scanVars, call, jobs>>

InitExtract ==
    /\ Quiet
    /\ call \in {[fn |-> "extract_scenarios", dr_text |-> t] : t \in ScenarioTexts}
    /\ ret = NoOutcome
    /\ jobs = 0
    /\ Unscanned

NextExtract == ExtractScenarios

SpecExtract == InitExtract /\ [][NextExtract]_vars

(* main.py: horizon_scan. What the generative service and the search service
   do during the scan is fixed in the initial state: the outcome of the report
   job, of the parse job, of the scoring job, and, for the lenses in odd and in
   even position, of the domain-map jobs and of the searches. poll_interval,
   max_cycles and debug_dr keep their defaults, which configure_timings writes
   to the module globals unchanged. scan.generated and scan.parsed count the
   calls of generate_deep_research and parse_research, scan.saved those of
   cache_service.save *)

\* the lens classes in the order horizon_scan constructs them, by the name
\* __class__.__name__.replace("Agent", "") gives
Lenses == <<"Social", "Tech", "Economic", "Environmental", "Political", "Values">>
steepv_order == <<"Social", "Tech", "Economic", "Environmental", "Political", "Values">>

\* a lens carries a category label and a topic list and delegates its two
\* operations to STEEPV_Agent
LensGenerateDomainMap(topics, category, text) == AgentDomainMap(topics, category, text)
LensScanForSignals(domain_map, category, script) == scan_for_signals(domain_map, category, script)

GoodReport ==
    <<<<"#", " ", "A", "l", "p", "h", "a">>,
      <<"#", "#", " ", "S", "c", "e", "n", "a", "r", "i", "o", " ", "1", ":", " ", "G", "r", "o", "w", "t", "h">>,
      <<"b", "o", "d", "y">>>>
OldReport ==
    <<<<"#", " ", "O", "l", "d">>,
      <<"#", "#", " ", "S", "c", "e", "n", "a", "r", "i", "o", " ", "2", ":", " ", "D", "e", "c", "l", "i", "n", "e">>,
      <<"w", "o", "r", "d", "s">>>>
SentinelReport ==
    <<<<"E", "r", "r", "o", "r", ":", " ", "T", "a", "s", "k", " ", "f", "a", "i", "l", "e", "d">>>>
EmptyReport == <<>>

GoodRecord ==
    JDict([k \in {"topics", "entities", "concepts"} |->
        IF k = "topics" THEN JList(<<<<"A">>, <<"B">>>>) ELSE EmptyList])
OldRecord ==
    JDict([k \in {"topics", "entities", "concepts"} |->
        IF k = "topics" THEN JList(<<<<"O">>>>) ELSE EmptyList])

SentinelText == [form |-> "sentinel", value |-> JNull]
TransportError == Raised("APIConnectionError")

GoodMap ==
    JDict([b \in BandNames |->
        CASE b = "Peripheral" -> JList(<<"p1", "p2">>)
          [] b = "Adjacent" -> JList(<<"a1">>)
          [] OTHER -> JList(<<"c1">>)])
\* an answer with a band that is a list under topics
OddMap == TopicsOf(JDict([b \in {"Core"} |-> JList(<<"a">>)]))

GoodScoreItem ==
    JDict([k \in DimensionNames \cup {"title", "overall_score"} |->
        CASE k = "title" -> JStr("Growth")
          [] k = "overall_score" -> JNum(4 * Milli)
          [] OTHER -> JNum(4 * Milli)])

DrOutcomes == {Returned(GoodReport), Returned(SentinelReport), Returned(EmptyReport), TransportError}
ParseAnswers ==
    {Returned(JsonText(GoodRecord)), Returned(SentinelText), Returned(JsonText(EmptyDict)),
     TransportError}
MapAnswers ==
    {Returned(JsonText(GoodMap)), Returned(SentinelText), Returned(JsonText(OddMap)),
     TransportError}
ScoreAnswers ==
    {Returned(JsonText(JList(<<GoodScoreItem>>))), Returned(SentinelText), TransportError}
ScanSearchOutcomes ==
    {Returned(<<FullResult>>), Raised("Exception"), Raised("HTTPError")}

\* first entry for the lenses in odd position, second for those in even position
ByPosition(pair, k) == pair[2 - (k % 2)]
MapPairs ==
    {<<x, x>> : x \in MapAnswers} \cup {<<Returned(JsonText(GoodMap)), x>> : x \in MapAnswers}
SearchPairs ==
    {<<x, x>> : x \in ScanSearchOutcomes}
    \cup {<<Returned(<<FullResult>>), x>> : x \in ScanSearchOutcomes}

\* the same outcome for every search of one lens
ScriptOf(outcome) == [i \in 1..(2 * MaxBandTopics) |-> outcome]

\* a text that is None, and no report written yet
NoText == [given |-> FALSE, v |-> <<>>]
NoReport == [given |-> FALSE, v |-> <<>>]

\* bool(dr_cached), dr_cached being None or a text
TextTruthy(t) == t.given /\ t.v # <<>>

EmptySignals == [x \in {} |-> <<>>]

ScanStart ==
    [pc |-> "load", dr_text |-> NoText, parsed_research |-> JNull, agent |-> 1,
     all_signals |-> EmptySignals, scenario_scores |-> <<>>,
     generated |-> 0, parsed |-> 0, saved |-> 0, raised |-> {}]

\* an exception leaves horizon_scan; scan.raised keeps the exceptions that the
\* operations called by the scan have raised so far
FatalFrom(locals, outcome) ==
    /\ scan' = [locals EXCEPT !.pc = "ended", !.raised = @ \cup {outcome.value[1]}]
    /\ ret' = outcome

Fatal(outcome) == FatalFrom(scan, outcome)

ScanAt(pc) == call.fn = "horizon_scan" /\ ~Ended /\ scan.pc = pc

\* faulty variant: a cached report that is a failure string counts as a miss
LoadResearchRejectsErrors ==
    /\ ScanAt("load")
    /\ IF call.dr_file = "unreadable"
       THEN Fatal(Raised("typer.Exit"))
       ELSE /\ ret' = ret
            /\ scan' =
                  IF call.dr_file = "readable"
                  THEN [scan EXCEPT !.pc = "generate", !.dr_text = Some(call.file_text)]
                  ELSE IF call.cache # "on" THEN [scan EXCEPT !.pc = "generate"]
                  ELSE IF /\ TextTruthy(files.dr) /\ ~StartsWithError(files.dr.v)
                          /\ JTruthy(files.parsed) /\ ~call.refresh_cache
                  THEN [scan EXCEPT !.pc = "generate", !.dr_text = files.dr,
                                    !.parsed_research = files.parsed]
                  ELSE IF /\ TextTruthy(files.dr) /\ ~StartsWithError(files.dr.v)
                          /\ ~call.refresh_cache
                  THEN [scan EXCEPT !.pc = "generate", !.dr_text = files.dr]
                  ELSE [scan EXCEPT !.pc = "generate"]
    /\ UNCHANGED <<llmVars, PARALLEL_AI_API_KEY, searchVars, call, jobs, searches, files>>

\* lines 49-74: the report comes from dr_file, or report and record from the cache
LoadResearch ==
    /\ ScanAt("load")
    /\ IF call.dr_file = "unreadable"
       THEN Fatal(Raised("typer.Exit"))
       ELSE /\ ret' = ret
            /\ scan' =
                  IF call.dr_file = "readable"
                  THEN [scan EXCEPT !.pc = "generate", !.dr_text = Some(call.file_text)]
                  ELSE IF call.cache # "on" THEN [scan EXCEPT !.pc = "generate"]
                  ELSE IF TextTruthy(files.dr) /\ JTruthy(files.parsed) /\ ~call.refresh_cache
                  THEN [scan EXCEPT !.pc = "generate", !.dr_text = files.dr,
                                    !.parsed_research = files.parsed]
                  ELSE IF TextTruthy(files.dr) /\ ~call.refresh_cache
                  THEN [scan EXCEPT !.pc = "generate", !.dr_text = files.dr]
                  ELSE [scan EXCEPT !.pc = "generate"]
    /\ UNCHANGED <<llmVars, PARALLEL_AI_API_KEY, searchVars, call, jobs, searches, files>>

\* faulty variant: an error of the report job is turned into a sentinel text
GenerateDeepResearchAbsorbs ==
    /\ ScanAt("generate")
    /\ IF scan.dr_text.given
       THEN /\ scan' = [scan EXCEPT !.pc = "parse"]
            /\ UNCHANGED <<ret, jobs>>
       ELSE /\ jobs' = jobs + 1
            /\ ret' = ret
            /\ scan' = IF call.dr.kind = "raise"
                       THEN [scan EXCEPT !.pc = "parse", !.dr_text = Some(SentinelReport),
                                         !.generated = @ + 1,
                                         !.raised = @ \cup {call.dr.value[1]}]
                       ELSE [scan EXCEPT !.pc = "parse", !.dr_text = Some(call.dr.value),
                                         !.generated = @ + 1]
    /\ UNCHANGED <<llmVars, PARALLEL_AI_API_KEY, searchVars, call, searches, files>>

\* lines 76-92
GenerateDeepResearch ==
    /\ ScanAt("generate")
    /\ IF scan.dr_text.given
       THEN /\ scan' = [scan EXCEPT !.pc = "parse"]
            /\ UNCHANGED <<ret, jobs>>
       ELSE /\ jobs' = jobs + 1
            /\ IF call.dr.kind = "raise"
               THEN FatalFrom([scan EXCEPT !.generated = @ + 1], call.dr)
               ELSE /\ scan' = [scan EXCEPT !.pc = "parse", !.dr_text = Some(call.dr.value),
                                            !.generated = @ + 1]
                    /\ ret' = ret
    /\ UNCHANGED <<llmVars, PARALLEL_AI_API_KEY, searchVars, call, searches, files>>

\* len(parsed_research.get("topics", [])) raises for a value without a length
Sized(v) == v.tag \in {"list", "str", "dict"}

\* lines 94-100
ParseResearch ==
    /\ ScanAt("parse")
    /\ IF scan.parsed_research # JNull
       THEN /\ scan' = [scan EXCEPT !.pc = "save"]
            /\ UNCHANGED <<ret, jobs>>
       ELSE /\ jobs' = jobs + 1
            /\ IF call.parse.kind = "raise"
               THEN FatalFrom([scan EXCEPT !.parsed = @ + 1], call.parse)
               ELSE LET data == ParseOutcome(call.parse.value, scan.dr_text.v)
                    IN  IF ~Sized(DictGet(data, "topics", EmptyList))
                        THEN FatalFrom([scan EXCEPT !.parsed = @ + 1], Raised("TypeError"))
                        ELSE /\ scan' = [scan EXCEPT !.pc = "save", !.parsed_research = data,
                                                     !.parsed = @ + 1]
                             /\ ret' = ret
    /\ UNCHANGED <<llmVars, PARALLEL_AI_API_KEY, searchVars, call, searches, files>>

\* faulty variant: an artifact already in the cache is kept
CacheSavedKeepsOld(dr_text, parsed) ==
    [files EXCEPT !.dr = IF files.dr.given THEN @ ELSE dr_text,
                  !.parsed = IF files.parsed # JNull THEN @ ELSE parsed]

\* cache_service.save: each artifact that is not None is written
CacheSaved(dr_text, parsed) ==
    [files EXCEPT !.dr = IF dr_text.given THEN dr_text ELSE @,
                  !.parsed = IF parsed # JNull THEN parsed ELSE @]

\* lines 102-113
SaveCache ==
    /\ ScanAt("save")
    /\ IF call.dr_file = "none" /\ call.cache = "on"
       THEN /\ files' = CacheSaved(scan.dr_text, scan.parsed_research)
            /\ scan' = [scan EXCEPT !.pc = "agents", !.saved = @ + 1]
       ELSE /\ files' = files
            /\ scan' = [scan EXCEPT !.pc = "agents"]
    /\ UNCHANGED <<llmVars, PARALLEL_AI_API_KEY, searchVars, call, ret, jobs, searches>>

\* parsed_research.get("topics", []) as the topic list of a lens (the records
\* considered hold a list, or nothing, under topics)
LensTopics(parsed) ==
    LET v == DictGet(parsed, "topics", EmptyList)
    IN  IF v.tag = "list" THEN v.items ELSE <<>>

\* lines 126-139 for the lens in position scan.agent
RunAgent ==
    /\ ScanAt("agents")
    /\ LET k == scan.agent
           topics == LensTopics(scan.parsed_research)
           answer == ByPosition(call.map, k)
           asked == IF topics = <<>> THEN 0 ELSE 1
           mapped == IF topics # <<>> /\ answer.kind = "raise"
                     THEN [out |-> answer, jobs |-> 1]
                     ELSE LensGenerateDomainMap(topics, Lenses[k],
                              IF answer.kind = "raise" THEN SentinelText ELSE answer.value)
           scanned == IF call.skip_web_search \/ mapped.out.kind = "raise"
                      THEN [out |-> Returned(<<>>), searches |-> <<>>]
                      ELSE LensScanForSignals(mapped.out.value, Lenses[k],
                               ScriptOf(ByPosition(call.search, k)))
           failed == IF scanned.searches # <<>> /\ ByPosition(call.search, k).kind = "raise"
                     THEN {ByPosition(call.search, k).value[1]}
                     ELSE {}
       IN  /\ jobs' = jobs + asked
           /\ searches' = searches \o scanned.searches
           /\ IF mapped.out.kind = "raise" THEN Fatal(mapped.out)
              ELSE IF scanned.out.kind = "raise" THEN Fatal(scanned.out)
              ELSE /\ ret' = ret
                   /\ scan' = [scan EXCEPT
                          !.all_signals = (Lenses[k] :> scanned.out.value) @@ @,
                          !.agent = k + 1,
                          !.raised = @ \cup failed,
                          !.pc = IF k = Len(Lenses) THEN "score" ELSE "agents"]
    /\ UNCHANGED <<llmVars, PARALLEL_AI_API_KEY, searchVars, call, files>>

\* lines 141-149
ScoreScenarios ==
    /\ ScanAt("score")
    /\ LET scenarios == IF call.no_scenario_scoring THEN <<>>
                        ELSE extract_scenarios(scan.dr_text.v)
       IN  IF scenarios = <<>>
           THEN /\ scan' = [scan EXCEPT !.pc = "report"]
                /\ UNCHANGED <<ret, jobs>>
           ELSE /\ jobs' = jobs + 1
                /\ IF call.score.kind = "raise"
                   THEN Fatal(call.score)
                   ELSE \E o \in ScoreOutcomes(call.score.value, scenarios) :
                           IF o.kind = "raise" THEN Fatal(o)
                           ELSE /\ scan' = [scan EXCEPT !.pc = "report",
                                                         !.scenario_scores = o.value]
                                /\ ret' = ret
    /\ UNCHANGED <<llmVars, PARALLEL_AI_API_KEY, searchVars, call, searches, files>>

\* faulty variant: the total counts the lenses that have signals
TotalSignalsCountsLenses(ordered) ==
    Cardinality({i \in 1..Len(ordered) : ordered[i].value # <<>>})

\* sum(len(v) for v in ordered_signals.values())
RECURSIVE TotalSignals(_)
TotalSignals(ordered) ==
    IF ordered = <<>> THEN 0 ELSE Len(Head(ordered).value) + TotalSignals(Tail(ordered))

\* OrderedDict((k, all_signals.get(k, [])) for k in steepv_order)
OrderedSignals(all_signals) ==
    [i \in 1..Len(steepv_order) |->
        [key |-> steepv_order[i],
         value |-> IF steepv_order[i] \in DOMAIN all_signals
                   THEN all_signals[steepv_order[i]] ELSE <<>>]]

Report(all_signals, scenario_scores) ==
    LET ordered == OrderedSignals(all_signals)
    IN  [summary |->
            [total_signals |-> TotalSignals(ordered),
             domains_with_signals |->
                 Cardinality({i \in 1..Len(ordered) : ordered[i].value # <<>>})],
         signals |-> ordered,
         scenario_scores |-> scenario_scores]

\* lines 151-169
WriteReport ==
    /\ ScanAt("report")
    /\ files' = [files EXCEPT !.report = Some(Report(scan.all_signals, scan.scenario_scores))]
    /\ scan' = [scan EXCEPT !.pc = "ended"]
    /\ ret' = Returned(JNull)
    /\ UNCHANGED <<llmVars, PARALLEL_AI_API_KEY, searchVars, call, jobs, searches>>

CacheStates ==
    {[dr |-> d, parsed |-> p, report |-> NoReport] :
        d \in {NoText, Some(EmptyReport), Some(OldReport), Some(SentinelReport)},
        p \in {JNull, EmptyDict, OldRecord}}
NoCache == [dr |-> NoText, parsed |-> JNull, report |-> NoReport]

\* scans that differ in the cache options and the cache content
CacheScans ==
    {[fn |-> "horizon_scan", dr_file |-> "none", file_text |-> EmptyReport,
      cache |-> c, cached |-> x, refresh_cache |-> r, skip_web_search |-> TRUE,
      no_scenario_scoring |-> TRUE, dr |-> d, parse |-> a,
      map |-> <<Returned(JsonText(GoodMap)), Returned(JsonText(GoodMap))>>,
      score |-> Returned(SentinelText),
      search |-> <<Returned(<<FullResult>>), Returned(<<FullResult>>)>>] :
        c \in {"off", "on", "bypass"}, x \in CacheStates, r \in BOOLEAN,
        d \in DrOutcomes, a \in ParseAnswers}

\* scans without a cache that differ in what the services do
ServiceScans ==
    {[fn |-> "horizon_scan", dr_file |-> f, file_text |-> GoodReport,
      cache |-> "off", cached |-> NoCache, refresh_cache |-> FALSE, skip_web_search |-> w,
      no_scenario_scoring |-> n, dr |-> d, parse |-> a, map |-> m, score |-> o,
      search |-> s] :
        f \in {"none", "readable", "unreadable"}, w \in BOOLEAN, n \in BOOLEAN,
        d \in DrOutcomes \ {Returned(EmptyReport)}, a \in ParseAnswers, m \in MapPairs,
        o \in ScoreAnswers, s \in SearchPairs}

\* scans with a cache in which every job fails and every search is exhausted
FailingScans ==
    {[fn |-> "horizon_scan", dr_file |-> "none", file_text |-> EmptyReport,
      cache |-> "on", cached |-> x, refresh_cache |-> r, skip_web_search |-> FALSE,
      no_scenario_scoring |-> FALSE, dr |-> Returned(SentinelReport),
      parse |-> Returned(SentinelText),
      map |-> <<Returned(SentinelText), Returned(SentinelText)>>,
      score |-> Returned(SentinelText),
      search |-> <<Raised("Exception"), Raised("Exception")>>] :
        x \in CacheStates, r \in BOOLEAN}

\* a later run with the same topic and cache directory, without refresh_cache:
\* it finds the cache files as the first run left them, and the services
\* answer as before; call.later holds what the first run called
LaterRun ==
    /\ call.fn = "horizon_scan" /\ Ended /\ ret.kind = "return"
    /\ call.cache = "on" /\ call.dr_file = "none"
    /\ "later" \notin DOMAIN call
    /\ call' = [k \in DOMAIN call \cup {"later"} |->
                   CASE k = "later" -> [generated |-> scan.generated, parsed |-> scan.parsed]
                     [] k = "cached" -> [files EXCEPT !.report = NoReport]
                     [] k = "refresh_cache" -> FALSE
                     [] OTHER -> call[k]]
    /\ files' = [files EXCEPT !.report = NoReport]
    /\ scan' = ScanStart
    /\ ret' = NoOutcome
    /\ jobs' = 0
    /\ searches' = <<>>
    /\ UNCHANGED <<llmVars, PARALLEL_AI_API_KEY, searchVars>>

InitScan ==
    /\ Quiet
    /\ call \in CacheScans \cup ServiceScans \cup FailingScans
    /\ files = call.cached
    /\ ret = NoOutcome
    /\ jobs = 0
    /\ searches = <<>>
    /\ scan = ScanStart

NextScan ==
    \/ LoadResearch
    \/ GenerateDeepResearch
    \/ ParseResearch
    \/ SaveCache
    \/ RunAgent
    \/ ScoreScenarios
    \/ WriteReport
    \/ LaterRun

SpecScan == InitScan /\ [][NextScan]_vars

-----------------------------------------------------------------------------
(* C24 *)

ScanEnded == call.fn = "horizon_scan" /\ Ended
ReportWritten == call.fn = "horizon_scan" /\ files.report.given

\* every generative job the scan runs ends in a failed task or in a text that
\* does not parse, and every search ends in retry exhaustion
AllSemanticFailures ==
    /\ call.fn = "horizon_scan"
    /\ call.dr_file # "unreadable"
    /\ call.dr = Returned(SentinelReport)
    /\ call.parse = Returned(SentinelText)
    /\ call.map = <<Returned(SentinelText), Returned(SentinelText)>>
    /\ call.score = Returned(SentinelText)
    /\ call.search = <<Raised("Exception"), Raised("Exception")>>

IsPlaceholderScore(item) ==
    Has(item, "explanation") /\ item.d["explanation"] = FallbackExplanation

\* the scan has returned after running all six lenses and writing a report
\* that has an entry for each lens, every one empty, and scenario scores that
\* are all placeholders
CompletedWithPlaceholders ==
    /\ ret = Returned(JNull)
    /\ scan.agent = Len(Lenses) + 1
    /\ files.report.given
    /\ Len(files.report.v.signals) = Len(Lenses)
    /\ \A i \in 1..Len(Lenses) :
          /\ files.report.v.signals[i].key = Lenses[i]
          /\ files.report.v.signals[i].value = <<>>
    /\ \A i \in 1..Len(files.report.v.scenario_scores) :
          IsPlaceholderScore(files.report.v.scenario_scores[i])

-----------------------------------------------------------------------------
(* C25 *)

TransportRaised == "APIConnectionError" \in scan.raised
Http4xxRaised == "HTTPError" \in scan.raised

\* C25 as stated: a search HTTP 4xx or a generative-service transport error
\* raised during horizon_scan ends the scan in error, without a report
C25_StructuralErrorIsFatal ==
    (ScanEnded /\ (TransportRaised \/ Http4xxRaised)) =>
        /\ ret.kind = "raise"
        /\ ~files.report.given

\* C25 amended: a generative-service transport error raised during
\* horizon_scan ends the scan with that error and without a report; a search
\* HTTP 4xx is caught in scan_for_signals: the lens of that search gets no
\* signal from it, the error is not the one the scan ends with, and a scan in
\* which nothing else is raised completes and writes its report
C25_TransportFatalSearchAbsorbed ==
    ScanEnded =>
        /\ TransportRaised => (ret = TransportError /\ ~files.report.given)
        /\ Http4xxRaised =>
              /\ ret # Raised("HTTPError")
              /\ \A k \in 1..Len(Lenses) :
                    (Lenses[k] \in DOMAIN scan.all_signals
                        /\ ByPosition(call.search, k) = Raised("HTTPError")) =>
                    scan.all_signals[Lenses[k]] = <<>>
        /\ scan.raised = {"HTTPError"} => (ret = Returned(JNull) /\ files.report.given)

\* the first lens was scanned, the domain-map job of the second met a
\* transport error, and the scan ended with it
C25_Witness ==
    /\ ScanEnded
    /\ TransportRaised
    /\ scan.agent = 2
    /\ DOMAIN scan.all_signals = {Lenses[1]}
    /\ scan.all_signals[Lenses[1]] # <<>>
    /\ ret = TransportError
    /\ ~files.report.given

-----------------------------------------------------------------------------
(* C27 *)

CacheInUse == call.fn = "horizon_scan" /\ call.cache = "on" /\ call.dr_file = "none"

\* the cache files of the topic exist with readable content
HoldsBoth == call.cached.dr.given /\ call.cached.parsed # JNull
HoldsBothNonEmpty == TextTruthy(call.cached.dr) /\ JTruthy(call.cached.parsed)

-----------------------------------------------------------------------------
(* C28 *)

\* the places of the report's signal lists: lens i, entry j
SignalPlaces(report) ==
    UNION {{<<i, j>> : j \in 1..Len(report.signals[i].value)} :
              i \in 1..Len(report.signals)}

\* C28: the signals of a written report have exactly the keys Social, Tech,
\* Economic, Environmental, Political, Values, in that order, each with the
\* list its lens returned, and summary.total_signals is the number of entries
\* of the six lists taken together
C28_SixKeysAndTotal ==
    ReportWritten =>
        /\ [i \in 1..Len(files.report.v.signals) |-> files.report.v.signals[i].key]
               = <<"Social", "Tech", "Economic", "Environmental", "Political", "Values">>
        /\ \A i \in 1..Len(files.report.v.signals) :
              files.report.v.signals[i].value = scan.all_signals[files.report.v.signals[i].key]
        /\ files.report.v.summary.total_signals = Cardinality(SignalPlaces(files.report.v))

\* three lenses found three signals each and three found none
C28_Witness ==
    /\ ReportWritten
    /\ files.report.v.summary.total_signals = 9
    /\ Len(files.report.v.signals[1].value) = 3
    /\ files.report.v.signals[2].value = <<>>
    /\ files.report.v.summary.domains_with_signals = 3

-----------------------------------------------------------------------------
(* C31 *)

\* the topics of the record the job's answer gives are absent or empty
TopicsEmptyOrAbsent(data) ==
    \/ ~Has(data, "topics")
    \/ data.d["topics"].tag = "null"
    \/ data.d["topics"].tag = "list" /\ data.d["topics"].items = <<>>

TopicsNonEmptyList(data) ==
    Has(data, "topics") /\ data.d["topics"].tag = "list" /\ data.d["topics"].items # <<>>

ReportUsable(dr_text) ==
    dr_text # <<>> /\ SubSeq(dr_text[1], 1, Len(ErrorPrefix)) # ErrorPrefix

\* C31: parse_research puts the result of the heading heuristic in topics
\* exactly when the topics of the extracted record are empty or absent and the
\* report is non-empty and does not start with "Error:"; in every other case
\* it returns the extracted record as it is, so non-empty topics come back
\* unchanged and empty topics stay empty for an "Error:" report
C31_BackfillIffEmptyAndUsable ==
    ParseEnded =>
        LET data == LoadRecord(call.text)
        IN  /\ ret.kind = "return"
            /\ (TopicsEmptyOrAbsent(data) /\ ReportUsable(call.dr_text)) =>
                  ret.value = DictPut(data, "topics",
                                      JList(_heuristic_topics(call.dr_text, DefaultMaxTopics)))
            /\ ~(TopicsEmptyOrAbsent(data) /\ ReportUsable(call.dr_text)) =>
                  ret.value = data
            /\ TopicsNonEmptyList(data) => ret.value.d["topics"] = data.d["topics"]
            /\ (TopicsEmptyOrAbsent(data) /\ ~ReportUsable(call.dr_text)) =>
                  ~JTruthy(DictGet(ret.value, "topics", JNull))

\* the answer had an empty topics list and the report starts with "Error:" and
\* goes on with a heading: the heading is not taken as a topic
C31_Witness ==
    /\ ParseEnded
    /\ call.text = JsonText(JDict([topics |-> EmptyList, concepts |-> JList(<<<<"c">>>>)]))
    /\ Len(call.dr_text) = 2
    /\ call.dr_text[1][1] = "E" /\ call.dr_text[2] = <<"#", " ", "A", "l", "p", "h", "a">>
    /\ ret.value.d["topics"] = EmptyList

-----------------------------------------------------------------------------
(* C32 *)

ExtractEnded == call.fn = "extract_scenarios" /\ Ended

\* a scenario heading is a line that, stripped, the pattern accepts; a closing
\* heading is a line that starts with two or three hashes and whitespace and
\* that the pattern does not accept
IsScenarioHeading(line) == SCENARIO_HEADING_PATTERN(Strip(line)).matched
IsClosingHeading(line) ==
    /\ ~IsScenarioHeading(line)
    /\ Leading(line, {"#"}) \in {2, 3}
    /\ Len(line) > Leading(line, {"#"})
    /\ line[Leading(line, {"#"}) + 1] \in Whitespace
    /\ ~SCENARIO_HEADING_PATTERN(line).matched

\* the line at which the body of the heading at line i ends: the first
\* heading of either kind after it, or the end of the text
BodyEnd(text, i) ==
    LET later == {j \in (i + 1)..Len(text) :
                     IsScenarioHeading(text[j]) \/ IsClosingHeading(text[j])}
    IN  IF later = {} THEN Len(text) + 1
        ELSE CHOOSE j \in later : \A k \in later : j <= k

\* lines a..b of the text, each with its line end
RECURSIVE LinesJoined(_, _, _)
LinesJoined(text, a, b) ==
    IF a > b THEN <<>> ELSE text[a] \o <<"\n">> \o LinesJoined(text, a + 1, b)

BodyOf(text, i) == LinesJoined(text, i + 1, BodyEnd(text, i) - 1)

\* the scenario headings of the text whose body is not blank
KeptHeadings(text) ==
    {i \in 1..Len(text) : IsScenarioHeading(text[i]) /\ Strip(BodyOf(text, i)) # <<>>}

KthOf(S, k) == CHOOSE i \in S : Cardinality({j \in S : j < i}) = k - 1

-----------------------------------------------------------------------------
(* C33 *)

\* a line of two to four hashes, whitespace and the word, followed by no more
\* than a number and a colon or dash
HasNoTitleText(line) ==
    LET a == AfterScenarioWord(Strip(line))
        w == Leading(a.rest, Whitespace)
        d == Leading(Drop(a.rest, w), Digits)
        afterNumber == IF w >= 1 /\ d >= 1 THEN Drop(a.rest, w + d) ELSE a.rest
        afterSeparator == IF afterNumber # <<>> /\ afterNumber[1] \in Separators
                          THEN Tail(afterNumber) ELSE afterNumber
    IN  a.found /\ Strip(afterSeparator) = <<>>

\* C33: a scenario heading without title text, followed by a non-blank body,
\* yields a scenario whose title is the placeholder 'Untitled Scenario'
C33_UntitledPlaceholder ==
    (/\ ExtractEnded
     /\ Len(call.dr_text) = 2
     /\ HasNoTitleText(call.dr_text[1])
     /\ call.dr_text[2] = <<"t", "e", "x", "t">>) =>
        /\ Len(ret.value) = 1
        /\ ret.value[1].title = UntitledScenario
        /\ ret.value[1].body = <<"t", "e", "x", "t", "\n">>

\* what the code does instead: no scenario at all has the placeholder as its
\* title, since group 1 of the pattern holds at least one character and the
\* stripped line does not end in whitespace
PlaceholderNeverReturned ==
    ExtractEnded => \A k \in 1..Len(ret.value) : ret.value[k].title # UntitledScenario

\* the three headings of the claim: no scenario, the title "1", the title ":"
HeadingsWithoutTitle ==
    (ExtractEnded /\ Len(call.dr_text) = 2 /\ call.dr_text[2] = <<"t", "e", "x", "t">>) =>
        /\ call.dr_text[1] = <<"#", "#", " ", "S", "c", "e", "n", "a", "r", "i", "o">>
              => ret.value = <<>>
        /\ call.dr_text[1] = <<"#", "#", " ", "S", "c", "e", "n", "a", "r", "i", "o", " ", "1">>
              => Len(ret.value) = 1 /\ ret.value[1].title = <<"1">>
        /\ call.dr_text[1] = <<"#", "#", " ", "S", "c", "e", "n", "a", "r", "i", "o", " ", "1", ":">>
              => Len(ret.value) = 1 /\ ret.value[1].title = <<":">>

-----------------------------------------------------------------------------
(* C34 *)

MaxJitterMs == 200

\* d is a backoff after the n-th counted failure: 0.4 * 2^(n-1) s and at most
\* 0.2 s more
InBackoffBand(n, d) ==
    /\ BaseBackoffMs * Pow2(n - 1) <= d
    /\ d <= BaseBackoffMs * Pow2(n - 1) + MaxJitterMs

\* the n-th sleep of a call is in the band of the n-th counted failure, and
\* there is one sleep for each counted failure but the one that uses up the
\* budget
C34_Safety ==
    /\ \A n \in 1..Len(searchSleeps) : InBackoffBand(n, searchSleeps[n])
    /\ Len(searchSleeps) =
          IF CountedFailures(postLog) >= max_retries /\ CountedFailures(postLog) > 0
          THEN CountedFailures(postLog) - 1
          ELSE CountedFailures(postLog)
    /\ CountedFailures(postLog) = attempt

\* a network attempt that ends in the n-th counted failure, n < max_retries,
\* is followed by exactly one sleep, in the band of n, before the next; any
\* other attempt, the 404 that switches endpoints included, by none
C34_Step ==
    Len(postLog') = Len(postLog) + 1 =>
        IF RetryableFailure(Last(postLog').outcome) /\ attempt' < max_retries'
        THEN /\ attempt' = attempt + 1
             /\ Len(searchSleeps') = Len(searchSleeps) + 1
             /\ SubSeq(searchSleeps', 1, Len(searchSleeps)) = searchSleeps
             /\ InBackoffBand(attempt', Last(searchSleeps'))
             /\ spc' = "loop"
        ELSE searchSleeps' = searchSleeps

\* C34: in search, after the n-th counted failure, 1 <= n < max_retries,
\* exactly one sleep of 0.4 * 2^(n-1) s to 0.4 * 2^(n-1) + 0.2 s precedes the
\* next attempt; no sleep follows the last counted failure and none comes
\* with the 404 endpoint switch
C34_BackoffDoubles == [](C34_Safety) /\ [][C34_Step]_vars

\* a timeout, the switch, a 5xx and a connection error with max_retries = 3:
\* two sleeps, of 0.6 s and of 0.8 s, and none after the third failure
C34_Witness ==
    /\ spc = "returned"
    /\ max_retries = 3
    /\ Len(postLog) = 4
    /\ postLog[1].outcome.kind = "Timeout"
    /\ Switch(postLog[2])
    /\ Is5xx(postLog[3].outcome)
    /\ postLog[4].outcome.kind = "ConnectionError"
    /\ searchSleeps = <<600, 800>>

-----------------------------------------------------------------------------
(* C35 *)

PollStep == polls' = polls + 1
PolledNonTerminal == PollStep /\ lpc' = "polling"

\* the sleeps of a call of _call_responses_api so far are one of
\* POLL_INTERVAL_SECONDS for each non-terminal poll
PollSleepSafety ==
    /\ sleeps = cycles
    /\ slept = sleeps * POLL_INTERVAL_SECONDS
    /\ lpc = "polling" => sleeps = polls
    /\ lpc \in {"returned", "raised"} => sleeps \in {polls, polls - 1}
    /\ (lpc = "returned" /\ llmOut = Returned(TimeoutSentinel)) =>
          sleeps = polls /\ sleeps = MAX_POLL_CYCLES

\* a non-terminal poll is followed by one sleep of POLL_INTERVAL_SECONDS, a
\* terminal poll, a fetch that raises and the timeout return by none
PollSleepStep ==
    /\ PolledNonTerminal =>
          sleeps' = sleeps + 1 /\ slept' = slept + POLL_INTERVAL_SECONDS
    /\ (PollStep /\ lpc' # "polling") => sleeps' = sleeps /\ slept' = slept
    /\ (lpc = "polling" /\ ~PollStep) => sleeps' = sleeps /\ slept' = slept

\* search sleeps only after a counted failure that leaves attempts in the
\* budget, once
SearchSleepStep ==
    searchSleeps' # searchSleeps /\ spc # "idle" /\ spc' # "idle" =>
        /\ Len(postLog') = Len(postLog) + 1
        /\ RetryableFailure(Last(postLog').outcome)
        /\ attempt' = attempt + 1 /\ attempt' < max_retries'
        /\ Len(searchSleeps') = Len(searchSleeps) + 1

\* C35 as stated: _call_responses_api sleeps POLL_INTERVAL_SECONDS exactly
\* once after each non-terminal poll and never after a terminal one, and no
\* other operation, search included, sleeps
C35_OnlyThePollerSleeps ==
    /\ [](PollSleepSafety /\ searchSleeps = <<>>)
    /\ [][PollSleepStep]_vars

\* C35 amended: _call_responses_api sleeps POLL_INTERVAL_SECONDS exactly once
\* after each non-terminal poll, the last poll before a timeout included, and
\* never after a terminal poll; the only other operation that sleeps is
\* search, once after each counted failure that does not use up max_retries
C35_PollerAndBackoffSleep ==
    /\ [](PollSleepSafety)
    /\ [][PollSleepStep /\ SearchSleepStep]_vars

\* a call with a budget of two polls has timed out after two sleeps of two
\* seconds each
C35_Witness ==
    /\ lpc = "returned"
    /\ llmOut = Returned(TimeoutSentinel)
    /\ MAX_POLL_CYCLES = 2 /\ POLL_INTERVAL_SECONDS = 2
    /\ polls = 2 /\ sleeps = 2 /\ slept = 4
    /\ spc = "idle"

-----------------------------------------------------------------------------
(* C36 *)

\* both settings are at least 1, and a timeout is reported only after a poll
TimingsPositive ==
    /\ POLL_INTERVAL_SECONDS >= 1
    /\ MAX_POLL_CYCLES >= 1
    /\ (lpc = "returned" /\ llmOut = Returned(TimeoutSentinel)) =>
          creates = 1 /\ polls >= 1 /\ polls = MAX_POLL_CYCLES

\* what a setting is after a call with the argument arg
SettingAfter(arg, setting) ==
    IF ~arg.given THEN setting ELSE IF arg.v < 1 THEN 1 ELSE arg.v

ConfigureStep ==
    \A poll_interval \in IntervalArgs, max_cycles \in CfgArgs, debug \in DebugArgs :
        configure_timings(poll_interval, max_cycles, debug) =>
            /\ POLL_INTERVAL_SECONDS' = SettingAfter(poll_interval, POLL_INTERVAL_SECONDS)
            /\ MAX_POLL_CYCLES' = SettingAfter(max_cycles, MAX_POLL_CYCLES)

\* C36: after any sequence of configure_timings calls from the defaults,
\* POLL_INTERVAL_SECONDS >= 1 and MAX_POLL_CYCLES >= 1; a value below 1 is
\* clamped to 1 and None leaves the setting as it is; every created job is
\* polled at least once before a timeout is reported
C36_TimingsStayPositive == [](TimingsPositive) /\ [][ConfigureStep]_vars

\* configure_timings(0, ...) and a max_cycles of at most 1 were given: both
\* settings are 1 and a call timed out after its one poll
C36_Witness ==
    /\ POLL_INTERVAL_SECONDS = 1
    /\ MAX_POLL_CYCLES = 1
    /\ lpc = "returned" /\ llmOut = Returned(TimeoutSentinel)
    /\ polls = 1 /\ slept = 1

-----------------------------------------------------------------------------
(* C37 *)

Budget == IF max_retries > 0 THEN max_retries ELSE 0

\* what is left for the loop to do: counted attempts, and the one switch
LoopMeasure == 2 * (Budget - attempt) + (IF endpoint = "primary" THEN 1 ELSE 0)

\* at most max_retries counted attempts and one uncounted; the attempts on
\* the primary endpoint come first and end with the one 404 that switches
C37_Safety ==
    /\ Len(postLog) <= Budget + 1
    /\ Len(postLog) - Switches(postLog) <= Budget
    /\ Switches(postLog) <= 1
    /\ \A i, j \in 1..Len(postLog) :
          (i < j /\ postLog[i].endpoint = "fallback") => postLog[j].endpoint = "fallback"
    /\ postLog # <<>> => postLog[1].endpoint = "primary"
    /\ spc = "loop" => LoopMeasure >= 0

\* the endpoint changes only from primary to fallback; a call starts on the
\* primary endpoint with nothing attempted; every pass of the loop that does
\* not end the call brings the end nearer
C37_Step ==
    /\ (spc # "idle" /\ spc' # "idle" /\ endpoint' # endpoint) =>
          endpoint = "primary" /\ endpoint' = "fallback"
    /\ (spc = "idle" /\ spc' # "idle") =>
          endpoint' = "primary" /\ attempt' = 0 /\ postLog' = <<>>
    /\ (spc = "loop" /\ spc' = "loop") => LoopMeasure' < LoopMeasure

\* C37: one call of search with max_retries = m makes at most m + 1 network
\* attempts, m counted and at most one uncounted for the single switch from
\* the primary to the fallback endpoint, and ends; each call starts on the
\* primary endpoint
C37_BoundedAttempts ==
    /\ [](C37_Safety)
    /\ [][C37_Step]_vars
    /\ (spc = "loop" ~> SearchEnded)

\* max_retries = 3 and four attempts: a timeout, the 404 that switches, and
\* two more failures on the fallback endpoint
C37_Witness ==
    /\ spc = "returned"
    /\ max_retries = 3
    /\ Len(postLog) = 4
    /\ postLog[1].endpoint = "primary" /\ postLog[1].outcome.kind = "Timeout"
    /\ postLog[2].endpoint = "primary" /\ Switch(postLog[2])
    /\ postLog[3].endpoint = "fallback" /\ postLog[3].outcome.kind = "Timeout"
    /\ postLog[4].endpoint = "fallback" /\ Is5xx(postLog[4].outcome)
    /\ searchOut = Returned(<<>>)

-----------------------------------------------------------------------------
(* C38 *)

MapEnded == call.fn = "STEEPV_Agent.generate_domain_map" /\ Ended

\* the job failed, was cancelled or timed out, or its text is not JSON
NoUsableJson(text) == text.form \in {"sentinel", "prose", "fenced_bad", "empty"}

\* topics[i mod n]
TopicAt(topics, i) == topics[(i % Len(topics)) + 1]

OneTopicMap(topics, category) ==
    JDict([t \in {"topics"} |->
        JDict([b \in {"Core", "Adjacent", "Peripheral"} |->
            JDict([c \in {category} |->
                JList(<<TopicAt(topics, CASE b = "Core" -> 0
                                          [] b = "Adjacent" -> 1
                                          [] b = "Peripheral" -> 2)>>)])])])

\* C38: when the domain-map job of a lens with n >= 1 topics yields no usable
\* JSON, the map is Core = [topics[0]], Adjacent = [topics[1 mod n]],
\* Peripheral = [topics[2 mod n]], and the scan of the lens makes exactly two
\* searches, for topics[2 mod n] and then for topics[1 mod n]
C38_FallbackMapTwoSearches ==
    (MapEnded /\ NoUsableJson(call.text) /\ call.topics # <<>>) =>
        /\ ret = Returned(OneTopicMap(call.topics, call.category))
        /\ jobs = 1
        /\ scan # NoScan =>
              /\ searches = <<TopicAt(call.topics, 2), TopicAt(call.topics, 1)>>
              /\ scan.out.kind = "return"

\* three topics and a failed job: the scan searched t3, then t2, and not t1
C38_Witness ==
    /\ MapEnded
    /\ call.text.form = "sentinel"
    /\ call.topics = <<"t1", "t2", "t3">>
    /\ scan # NoScan
    /\ searches = <<"t3", "t2">>
    /\ Len(scan.out.value) = 4

-----------------------------------------------------------------------------
(* C39 *)

FirstScan == call.fn = "horizon_scan" /\ "later" \notin DOMAIN call
LaterScan == call.fn = "horizon_scan" /\ "later" \in DOMAIN call

\* the run called generate_deep_research and got a failure string
GeneratedSentinel ==
    FirstScan /\ CacheInUse /\ scan.generated = 1 /\ call.dr = Returned(SentinelReport)
\* the run follows one that called generate_deep_research and got a failure string
AfterGeneratedSentinel ==
    LaterScan /\ call.later.generated = 1 /\ call.dr = Returned(SentinelReport)

=============================================================================
